---- MODULE Spec2Model ----
(***************************************************************************)
(* Model of the powr-test-automation suite: the session file               *)
(* (.auth/user.json) and the flows that read, delete and write it (global  *)
(* setup in its two versions, ensureAuthenticated, the Form Builder tests, *)
(* the login test), the auth verifiers, the LoginPage login orchestrator,  *)
(* and the three-tier pricing extraction of PricingPage.                   *)
(*                                                                         *)
(* The browser engine and the remote site are the environment: every       *)
(* observation the code makes of them (the URL after a navigation, whether *)
(* a locator became visible, whether an engine call threw) is drawn with   *)
(* \E at the step that makes the observation.                              *)
(***************************************************************************)
EXTENDS Integers, Sequences, FiniteSets, TLC

\* ------------------------------------------------------------------------
\* Bounds of the model
\* ------------------------------------------------------------------------

\* number of flows run one after the other on the same session file
MaxRuns == 2

\* ------------------------------------------------------------------------
\* URLs and String.prototype.includes
\* ------------------------------------------------------------------------

\* the URLs the page can be observed on
Urls ==
  { "about:blank",
    "https://www.powr.io/signin?lang=en",
    "https://www.powr.io/signin?return_to=/users/me",
    "https://www.powr.io/users/sign_in",
    "https://www.powr.io/users/me",
    "https://www.powr.io/users/me?from=/sign_in",
    "https://www.powr.io/plugins/form-builder/standalone" }

\* the needles the code searches URLs for
Needles == { "/signin", "/sign_in", "signin", "sign_in", "/users/me" }

\* url.includes(needle): the substrings each URL of Urls contains
Includes(u, needle) ==
  CASE u = "about:blank" -> FALSE
    [] u = "https://www.powr.io/signin?lang=en" -> needle \in {"/signin", "signin"}
    [] u = "https://www.powr.io/signin?return_to=/users/me" ->
         needle \in {"/signin", "signin", "/users/me"}
    [] u = "https://www.powr.io/users/sign_in" -> needle \in {"/sign_in", "sign_in"}
    [] u = "https://www.powr.io/users/me" -> needle \in {"/users/me"}
    [] u = "https://www.powr.io/users/me?from=/sign_in" ->
         needle \in {"/sign_in", "sign_in", "/users/me"}
    [] u = "https://www.powr.io/plugins/form-builder/standalone" -> FALSE

\* LoginPage.LOGIN_PATH.split('?')[0]
LOGIN_PATH == "/signin"

\* the login-page pattern of the auth verifiers: '/signin' or '/sign_in'
isOnLoginPage(u) == Includes(u, "/signin") \/ Includes(u, "/sign_in")

\* ------------------------------------------------------------------------
\* State
\* ------------------------------------------------------------------------

VARIABLES
  authFile,     \* .auth/user.json: whether it exists and the run that wrote
                \* it (0: written before the first modelled run)
  USER_CREDS,   \* USER_EMAIL and USER_PASSWORD are both set
  CAPTCHA_WAIT_TIMEOUT, \* parseInt(process.env.CAPTCHA_WAIT_TIMEOUT || '60000')
  run,          \* number of the current run
  flow,         \* the flow the current run executes
  pc,           \* position in the flow
  url,          \* page.url() of the flow's page
  loginSuccess, \* last value returned by LoginPage.login / login(page)
  DEBUG_MODE,   \* process.env.DEBUG_MODE === 'true'
  pricing,      \* PricingPage: the extraction in progress and its results
  shots,        \* the screenshot helpers: environment, cached mode, directory,
                \* clock and the calls made
  po,           \* the last call made on a method of the page objects
  obs           \* what happened in the current run, recorded for the claims

vars == << authFile, USER_CREDS, CAPTCHA_WAIT_TIMEOUT, run, flow, pc, url,
           loginSuccess, DEBUG_MODE, pricing, shots, po, obs >>

\* the configuration, which no flow changes
config == << USER_CREDS, CAPTCHA_WAIT_TIMEOUT, DEBUG_MODE >>

Flows ==
  { "globalSetup", "legacySetup", "formBuilderLegacy", "authSpec", "beforeEach",
    "pricingTest" }

\* authFile: never written, written in run r (0: before the first run), or
\* deleted by fs.unlinkSync
Absent == [ exists |-> FALSE, savedInRun |-> 0, deleted |-> FALSE ]
\* variant: the write of the session file leaves nothing on disk
Saved_lost(r) == [ exists |-> FALSE, savedInRun |-> 0, deleted |-> FALSE ]
Saved(r) == [ exists |-> TRUE, savedInRun |-> r, deleted |-> FALSE ]
Deleted == [ exists |-> FALSE, savedInRun |-> 0, deleted |-> TRUE ]

\* HTTP status of the response of page.goto (0: no response object)
Statuses == { 0, 200, 404 }

\* record of one call of an auth verifier and of what it observed
NoVerify ==
  [ by |-> "none", gotoOk |-> FALSE, status |-> 0, shotOk |-> FALSE,
    landed |-> "about:blank", result |-> FALSE, threw |-> FALSE ]

\* observations of a run that has not done anything yet
NoObs ==
  [ fileAtStart    |-> Absent,   \* authFile when the run started
    verified       |-> "none",   \* stored-session verification: none/pass/fail
    verifications  |-> 0,        \* stored-session verifications made
    browsers       |-> 0,        \* browsers globalSetup launched and has not closed
    probeUrl       |-> "none",   \* URL the verification probe ended on
    unlinked       |-> "none",   \* unlinkSync(authFile): none/ok/failed
    freshLogin     |-> FALSE,    \* the fresh login of globalSetup has started
    fileAtLogin    |-> Absent,   \* authFile when the fresh login started
    loginCalls     |-> 0,        \* calls of a login routine
    loginPassed    |-> FALSE,    \* some login success check passed
    navigations    |-> 0,        \* page.goto issued by LoginPage.login
    loginStartUrl  |-> "none",   \* page.url() when LoginPage.login looked at it
    dashIndicator  |-> "none",   \* indicator at the dashboard check: none/yes/no
    dashCheck      |-> "none",   \* isLoggedIn(5000) of that check: none/pass/fail
    formFilled     |-> FALSE,    \* credentials typed into the form
    submitted      |-> FALSE,    \* submit clicked
    raceTimedOut   |-> FALSE,    \* the post-submit completion wait timed out
    verifyRan      |-> FALSE,    \* the Verify step of a login has run
    loggedIn       |-> FALSE,    \* what isLoggedIn() returned in that step
    verifyFailed   |-> FALSE,    \* the Verify step of a login returned false
    captchaChecks  |-> 0,        \* probes for a CAPTCHA frame
    captchaEarly   |-> FALSE,    \* a probe was made with no failed Verify before
    captchaFound   |-> "none",   \* result of the last probe: none/yes/no
    waits          |-> 0,        \* manual waits entered
    waitedMs       |-> 0,        \* duration of the last manual wait
    reverifies     |-> 0,        \* re-verifications after the manual wait
    reverifyUrl    |-> "none",   \* URL seen by the re-verification
    reverified     |-> "none",   \* its result: none/pass/fail
    lastVerify     |-> NoVerify, \* the last call of an auth verifier
    storedAuth     |-> "none",   \* hasStoredAuth() returned: none/true/false
    fileAtAsk      |-> Absent,   \* authFile when hasStoredAuth was called
    ensured        |-> "none",   \* ensureAuthenticated returned: none/true/false
    eaLogin        |-> "none",   \* login(page) inside it: none/true/false/throw
    doubleCheck    |-> "none",   \* its verification after the save: none/pass/fail
    authChecked    |-> "none",   \* authCheck of beforeEach: none/pass/fail
    editorUrl      |-> "none",   \* URL after the direct navigation to the editor
    editorWaited   |-> FALSE,    \* waitForEditorLoad was entered
    bodyStarted    |-> FALSE,    \* the body of the test has started
    writes         |-> << >>,    \* one entry per write of authFile: loginPassed then
    outcome        |-> "running" \* running / returned / threw
  ]

\* PricingPage before its extraction has started
NoPricing ==
  [ cardIdx        |-> 0,      \* index of the card selector being tried
    sectionIdx     |-> 0,      \* index of the section selector being tried
    cardQueries    |-> 0,      \* number of card selectors whose count was asked
    cardMatch      |-> 0,      \* first card selector with a non-zero count
    sectionQueries |-> 0,      \* number of section selectors whose count was asked
    sectionMatch   |-> 0,      \* first section selector with a non-zero count
    tierResults    |-> << >>,  \* `results` of the tier in progress
    adoptedCard    |-> 0,      \* first card selector that gave entries
    adoptedCardEntries |-> << >>,  \* the entries its cards gave
    adoptedSection |-> 0,      \* first section selector that gave entries
    adoptedSectionEntries |-> << >>, \* the entries its sections gave
    tiersRun       |-> << >>,  \* the tiers run, in order, each with its output
    results        |-> << >>,  \* results of getSocialFeedPricingWithFallbacks
    returned       |-> FALSE,  \* getSocialFeedPricingWithFallbacks returned
    verified       |-> FALSE,  \* verifySocialFeedPricing returned
    matched        |-> { },    \* the expected plans it logged as matching
    allPricesFound |-> FALSE   \* its return value
  ]

\* parseInt(process.env.CAPTCHA_WAIT_TIMEOUT || '60000', 10): unset, or set
CaptchaTimeouts == { 60000, 5000 }

\* No method of the page objects has been called: the method, its inputs
\* and what it gave.
NoPageCall ==
  [ fn |-> "none", input |-> << >>, output |-> << >>, threw |-> FALSE ]

\* A screenshot path: undefined, or screenshots/<name>-<timestamp><ext>.
NoPath == [ defined |-> FALSE, name |-> "", timestamp |-> 0, ext |-> "" ]

\* What one call of a screenshot helper did.
NoResult ==
  [ path    |-> NoPath,  \* the value returned (the path handed to the capture
                         \* primitive, where the helper returns nothing)
    generated |-> NoPath, \* what generateScreenshotPath returned, if it ran
    invoked |-> FALSE,   \* page.screenshot was invoked
    wrote   |-> FALSE,   \* a screenshot file was written
    created |-> FALSE,   \* the screenshots directory was created
    threw   |-> FALSE ]  \* the call threw

\* The last call made on the screenshot helpers, with its inputs.
NoCall ==
  [ fn        |-> "none",
    env       |-> "unset",   \* process.env.SCREENSHOT_MODE at the call
    mode      |-> "none",    \* the mode the call worked with
    isFailure |-> FALSE,
    should    |-> FALSE,     \* what shouldTakeScreenshot answered
    base      |-> "",        \* baseFileName
    dirBefore |-> FALSE,     \* the screenshots directory existed at the call
    mkdirOk   |-> FALSE,     \* fs.mkdirSync would succeed
    shotOk    |-> FALSE,     \* page.screenshot would succeed
    result    |-> NoResult ]

NoGen == [ base |-> "", path |-> NoPath ]

NoShots ==
  [ env                   |-> "unset", \* process.env.SCREENSHOT_MODE
    currentScreenshotMode |-> "null",  \* the module-level cache
    envRead               |-> "none",  \* the env value the cache was filled from
    firstMode             |-> "none",  \* what the first getScreenshotMode returned
    dirExists             |-> FALSE,   \* <cwd>/screenshots exists
    now                   |-> 0,       \* the clock, in milliseconds
    gen                   |-> NoGen,   \* last path generateScreenshotPath returned
    prevGen               |-> NoGen,   \* the one it returned before that
    last                  |-> NoCall ]

Init ==
  /\ authFile \in { Absent, Saved(0) }
  /\ USER_CREDS \in BOOLEAN
  /\ CAPTCHA_WAIT_TIMEOUT \in CaptchaTimeouts
  /\ run = 1
  /\ flow \in Flows
  /\ pc = "start"
  /\ url = "about:blank"
  /\ loginSuccess = FALSE
  /\ DEBUG_MODE \in BOOLEAN
  /\ pricing = NoPricing
  /\ shots = NoShots
  /\ po = NoPageCall
  /\ obs = [ NoObs EXCEPT !.fileAtStart = authFile ]

\* ------------------------------------------------------------------------
\* Helpers shared by the flows
\* ------------------------------------------------------------------------

\* variant: the browser is closed on the way out of a return only
closeBrowser_notOnThrow(open, threw) == IF threw THEN open ELSE 0

\* `finally { if (browser ...) await browser.close(); }` of globalSetup
\* and of verifyExistingAuthState: closed however the block is left
closeBrowser(open, threw) == 0

\* the flow's function returned or threw: the run is over
Finish(o, how) ==
  /\ pc' = "done"
  /\ obs' = [ o EXCEPT !.outcome = how,
                       !.browsers = closeBrowser(@, how = "threw") ]

\* context.storageState({ path: authFile }): whole-file overwrite
Written(o) == [ o EXCEPT !.writes = Append(@, o.loginPassed) ]

\* ------------------------------------------------------------------------
\* LoginPage (page-objects/login-page.ts, current version)
\* ------------------------------------------------------------------------

\* variant: the indicator alone decides, the URL is not looked at
isLoggedIn_indicatorOnly(indicatorVisible, currentUrl) == indicatorVisible

\* LoginPage.isLoggedIn: the dashboard indicator became visible within the
\* timeout and the URL does not contain the login path
isLoggedIn(indicatorVisible, currentUrl) ==
  indicatorVisible /\ ~Includes(currentUrl, LOGIN_PATH)

\* LoginPage.login returned `result` to the flow that called it
LoginReturns(result, o) ==
  /\ loginSuccess' = result
  /\ CASE flow = "globalSetup" ->
            /\ pc' = IF result THEN "gs_save" ELSE "gs_captcha"
            /\ obs' = o
       [] flow = "beforeEach" ->
            IF result
              THEN /\ pc' = "be_nav"
                   /\ obs' = o
              ELSE Finish(o, "threw")

\* LoginPage.login threw: globalSetup's inner catch rethrows, the catch of
\* beforeEach throws 'Authentication failed'
LoginThrows(o) ==
  /\ loginSuccess' = loginSuccess
  /\ Finish(o, "threw")

\* variant: the login page is always navigated to
skipsNavigation_never(currentUrl) == FALSE

\* login(): `!isLoginPage && !isDashboard` decides the navigation
skipsNavigation(currentUrl) ==
  Includes(currentUrl, LOGIN_PATH) \/ Includes(currentUrl, "/users/me")

\* login(), start: missing credentials throw; navigate to the login page
\* unless the page is already on the login page or on the dashboard
LP_Start ==
  /\ pc = "lp_start"
  /\ IF ~USER_CREDS
       THEN /\ LoginThrows(obs)
            /\ UNCHANGED url
       ELSE LET o == [ obs EXCEPT !.loginStartUrl = url ]
            IN  IF ~skipsNavigation(url)
                  THEN \E gotoOk \in BOOLEAN, landed \in Urls :
                         IF gotoOk
                           THEN /\ url' = landed
                                /\ pc' = "lp_dash"
                                /\ obs' = [ o EXCEPT !.navigations = @ + 1 ]
                                /\ UNCHANGED loginSuccess
                           ELSE /\ LoginThrows([ o EXCEPT !.navigations = @ + 1 ])
                                /\ UNCHANGED url
                  ELSE /\ pc' = "lp_dash"
                       /\ obs' = o
                       /\ UNCHANGED << url, loginSuccess >>
  /\ UNCHANGED << authFile, config, shots, po, pricing, run, flow >>

\* login(), dashboard URL seen before filling the form: return true when
\* isLoggedIn(5000) holds, else navigate to the login page
LP_Dashboard ==
  /\ pc = "lp_dash"
  /\ IF Includes(url, "/users/me")
       THEN \E indicatorVisible \in BOOLEAN :
              LET loggedIn == isLoggedIn(indicatorVisible, url)
                  o == [ obs EXCEPT
                           !.dashIndicator = IF indicatorVisible THEN "yes"
                                             ELSE "no",
                           !.dashCheck = IF loggedIn THEN "pass" ELSE "fail" ]
              IN  IF loggedIn
                    THEN /\ LoginReturns(TRUE, [ o EXCEPT !.loginPassed = TRUE ])
                         /\ UNCHANGED url
                    ELSE \E gotoOk \in BOOLEAN, landed \in Urls :
                           IF gotoOk
                             THEN /\ url' = landed
                                  /\ pc' = "lp_form"
                                  /\ obs' = [ o EXCEPT !.navigations = @ + 1 ]
                                  /\ UNCHANGED loginSuccess
                             ELSE /\ LoginThrows([ o EXCEPT
                                                     !.navigations = @ + 1 ])
                                  /\ UNCHANGED url
       ELSE /\ pc' = "lp_form"
            /\ UNCHANGED << url, obs, loginSuccess >>
  /\ UNCHANGED << authFile, config, shots, po, pricing, run, flow >>

\* login(), FormFill and Submit: wait for the email input, fill both
\* inputs, click submit; any failure is caught and login returns false
LP_FormFill ==
  /\ pc = "lp_form"
  /\ \E attached \in BOOLEAN, clicked \in BOOLEAN :
       IF attached /\ clicked
         THEN /\ pc' = "lp_race"
              /\ obs' = [ obs EXCEPT !.formFilled = TRUE, !.submitted = TRUE ]
              /\ UNCHANGED loginSuccess
         ELSE LoginReturns(FALSE, [ obs EXCEPT !.formFilled = attached ])
  /\ UNCHANGED << authFile, config, shots, po, pricing, run, flow, url >>

\* variant: the wait has no catch of its own, its error reaches the outer
\* catch of login
raceErrorEscapes_uncaught(settled) == ~settled

\* login(): `try { await Promise.race([...]) } catch (error) { warn;
\* screenshot }`: the error of the wait does not leave the inner try
raceErrorEscapes(settled) == FALSE

\* login(), race of waitForNavigation and the dashboard indicator: a
\* timeout is logged and the flow falls through to the verification
LP_Race ==
  /\ pc = "lp_race"
  /\ \E settled \in BOOLEAN, landed \in Urls :
       /\ url' = landed
       /\ IF raceErrorEscapes(settled)
            THEN LoginReturns(FALSE, [ obs EXCEPT !.raceTimedOut = ~settled ])
            ELSE /\ pc' = "lp_verify"
                 /\ obs' = [ obs EXCEPT !.raceTimedOut = ~settled ]
                 /\ UNCHANGED loginSuccess
  /\ UNCHANGED << authFile, config, shots, po, pricing, run, flow >>

\* login(), Verify: the result of isLoggedIn() is the result of login
LP_Verify ==
  /\ pc = "lp_verify"
  /\ \E indicatorVisible \in BOOLEAN :
       LET loggedIn == isLoggedIn(indicatorVisible, url)
       IN  LoginReturns(loggedIn,
             [ obs EXCEPT !.loginPassed = @ \/ loggedIn,
                          !.verifyFailed = @ \/ ~loggedIn,
                          !.verifyRan = TRUE,
                          !.loggedIn = loggedIn ])
  /\ UNCHANGED << authFile, config, shots, po, pricing, run, flow, url >>

\* ------------------------------------------------------------------------
\* globalSetup, current version (global-setup.ts with session reuse)
\* ------------------------------------------------------------------------

\* verifyExistingAuthState: launch a browser on the stored state, go to
\* /users/me and ask LoginPage.isLoggedIn(15000); any error gives false
verifyExistingAuthState(engineOk, indicatorVisible, landed) ==
  engineOk /\ isLoggedIn(indicatorVisible, landed)

\* variant: opening the stored session consumes the file
readStorageState_consumes(file) == Deleted

\* browser.newContext({ storageState: authFile }): the file is read
readStorageState(file) == file

\* variant: the stored session is used whatever the verification said
usesExistingAuth_any(valid) == TRUE

\* globalSetup: `if (await verifyExistingAuthState(config)) { ...; return; }`
usesExistingAuth(valid) == valid

\* globalSetup: does the session file exist?
GS_Start ==
  /\ pc = "start"
  /\ flow = "globalSetup"
  /\ pc' = IF authFile.exists THEN "gs_verify" ELSE "gs_fresh"
  /\ UNCHANGED << authFile, config, shots, po, pricing, run, flow, url,
                  loginSuccess, obs >>

\* globalSetup: a valid stored session ends the setup, an invalid one is
\* deleted
GS_VerifyExisting ==
  /\ pc = "gs_verify"
  /\ \E engineOk \in BOOLEAN, indicatorVisible \in BOOLEAN, landed \in Urls :
       LET valid == verifyExistingAuthState(engineOk, indicatorVisible, landed)
           o == [ obs EXCEPT !.verified = IF valid THEN "pass" ELSE "fail",
                             !.verifications = @ + 1,
                             !.browsers = closeBrowser(@ + 1, ~engineOk),
                             !.probeUrl = IF engineOk THEN landed ELSE "about:blank" ]
       IN  IF usesExistingAuth(valid)
             THEN Finish(o, "returned")
             ELSE /\ pc' = "gs_unlink"
                  /\ obs' = o
  /\ authFile' = readStorageState(authFile)
  /\ UNCHANGED << config, shots, po, pricing, run, flow, url,
                  loginSuccess >>

\* globalSetup: fs.unlinkSync(authFile) in a try/catch that only logs
GS_Unlink ==
  /\ pc = "gs_unlink"
  /\ \E unlinkOk \in BOOLEAN :
       /\ authFile' = IF unlinkOk THEN Deleted ELSE authFile
       /\ obs' = [ obs EXCEPT !.unlinked = IF unlinkOk THEN "ok" ELSE "failed" ]
  /\ pc' = "gs_fresh"
  /\ UNCHANGED << config, shots, po, pricing, run, flow, url, loginSuccess >>

\* globalSetup, fresh login: launch the browser, read the credentials and
\* call LoginPage.login on a new page
GS_FreshLogin ==
  /\ pc = "gs_fresh"
  /\ LET o == [ obs EXCEPT !.freshLogin = TRUE, !.fileAtLogin = authFile ]
     IN  \E launchOk \in BOOLEAN :
           IF launchOk /\ USER_CREDS
             THEN /\ pc' = "lp_start"
                  /\ url' = "about:blank"
                  /\ obs' = [ o EXCEPT !.loginCalls = @ + 1,
                                       !.browsers = @ + 1 ]
             ELSE /\ Finish([ o EXCEPT !.browsers = IF launchOk THEN @ + 1
                                                    ELSE @ ], "threw")
                  /\ UNCHANGED url
  /\ UNCHANGED << authFile, config, shots, po, pricing, run, flow,
                  loginSuccess >>

\* isCaptchaChallengeVisible: wait 7 s for a CAPTCHA frame
isCaptchaChallengeVisible(frameVisible) == frameVisible

\* globalSetup, login failed: CaptchaCheck; without a frame the setup throws
GS_CaptchaCheck ==
  /\ pc = "gs_captcha"
  /\ \E frameVisible \in BOOLEAN :
       LET found == isCaptchaChallengeVisible(frameVisible)
           o == [ obs EXCEPT !.captchaChecks = @ + 1,
                             !.captchaEarly = @ \/ ~obs.verifyFailed,
                             !.captchaFound = IF found THEN "yes" ELSE "no" ]
       IN  IF found
             THEN /\ pc' = "gs_wait"
                  /\ obs' = o
             ELSE Finish(o, "threw")
  /\ UNCHANGED << authFile, config, shots, po, pricing, run, flow, url,
                  loginSuccess >>

\* globalSetup, ManualWait: page.waitForTimeout(CAPTCHA_WAIT_TIMEOUT), while
\* a human may solve the challenge in the browser
GS_ManualWait ==
  /\ pc = "gs_wait"
  /\ \E landed \in Urls :
       /\ url' = landed
       /\ obs' = [ obs EXCEPT !.waits = @ + 1, !.waitedMs = CAPTCHA_WAIT_TIMEOUT ]
  /\ pc' = "gs_reverify"
  /\ UNCHANGED << authFile, config, shots, po, pricing, run, flow,
                  loginSuccess >>

\* globalSetup, re-verification after the wait: isLoggedIn(15000) or throw
GS_Reverify ==
  /\ pc = "gs_reverify"
  /\ \E indicatorVisible \in BOOLEAN :
       LET loggedIn == isLoggedIn(indicatorVisible, url)
           o == [ obs EXCEPT !.reverifies = @ + 1,
                             !.reverifyUrl = url,
                             !.reverified = IF loggedIn THEN "pass" ELSE "fail",
                             !.loginPassed = @ \/ loggedIn ]
       IN  IF loggedIn
             THEN /\ pc' = "gs_save"
                  /\ obs' = o
             ELSE Finish(o, "threw")
  /\ UNCHANGED << authFile, config, shots, po, pricing, run, flow, url,
                  loginSuccess >>

\* globalSetup: context.storageState({ path: authFile }) and return
GS_Save ==
  /\ pc = "gs_save"
  /\ authFile' = Saved(run)
  /\ Finish(Written(obs), "returned")
  /\ UNCHANGED << config, shots, po, pricing, run, flow, url, loginSuccess >>

\* ------------------------------------------------------------------------
\* globalSetup, legacy version (global-setup.ts)
\* ------------------------------------------------------------------------

\* the fixed manual wait of the legacy setup
LEGACY_CAPTCHA_WAIT == 30000

\* legacy catch block: page.screenshot('login-error.png'), then finally;
\* the error is swallowed unless the screenshot throws too
LS_Caught(o) ==
  \E shotOk \in BOOLEAN : Finish(o, IF shotOk THEN "returned" ELSE "threw")

\* legacy globalSetup: launch, check the credentials, open the login page,
\* fill the form and click submit
LS_Submit ==
  /\ pc = "start"
  /\ flow = "legacySetup"
  /\ \E launchOk \in BOOLEAN, formOk \in BOOLEAN, landed \in Urls :
       IF ~launchOk
         THEN /\ Finish(obs, "threw")
              /\ UNCHANGED url
         ELSE IF ~USER_CREDS \/ ~formOk
           THEN /\ LS_Caught(obs)
                /\ UNCHANGED url
           ELSE /\ url' = landed
                /\ pc' = "ls_captcha"
                /\ obs' = [ obs EXCEPT !.loginCalls = @ + 1, !.formFilled = TRUE,
                                       !.submitted = TRUE ]
  /\ UNCHANGED << authFile, config, shots, po, pricing, run, flow, loginSuccess >>

\* legacy globalSetup: count the CAPTCHA frames right after the click
LS_CaptchaCheck ==
  /\ pc = "ls_captcha"
  /\ \E captchaFrames \in 0..1 :
       /\ obs' = [ obs EXCEPT !.captchaChecks = @ + 1,
                              !.captchaEarly = @ \/ ~obs.verifyFailed,
                              !.captchaFound = IF captchaFrames > 0 THEN "yes" ELSE "no" ]
       /\ pc' = IF captchaFrames > 0 THEN "ls_wait" ELSE "ls_save"
  /\ UNCHANGED << authFile, config, shots, po, pricing, run, flow, url, loginSuccess >>

\* legacy globalSetup: wait 30 s for the CAPTCHA to be solved by hand
LS_ManualWait ==
  /\ pc = "ls_wait"
  /\ \E landed \in Urls : url' = landed
  /\ obs' = [ obs EXCEPT !.waits = @ + 1, !.waitedMs = LEGACY_CAPTCHA_WAIT ]
  /\ pc' = "ls_save"
  /\ UNCHANGED << authFile, config, shots, po, pricing, run, flow, loginSuccess >>

\* legacy globalSetup: wait 5 s, log the URL, save the state regardless of
\* the outcome, take the result screenshot
LS_Save ==
  /\ pc = "ls_save"
  /\ \E landed \in Urls : url' = landed
  /\ authFile' = Saved(run)
  /\ \E shotOk \in BOOLEAN :
       IF shotOk THEN Finish(Written(obs), "returned") ELSE LS_Caught(Written(obs))
  /\ UNCHANGED << config, shots, po, pricing, run, flow, loginSuccess >>

\* ------------------------------------------------------------------------
\* utils/auth-helper.ts and the legacy Form Builder test
\* ------------------------------------------------------------------------

\* variant: a session is always reported
hasStoredAuth_always == TRUE

\* hasStoredAuth: fs.existsSync(authFile)
hasStoredAuth == authFile.exists

\* verifyAuthentication: go to /users/me, wait, take a screenshot, then
\* classify the URL; any error inside the try gives false
verifyAuthentication(gotoOk, shotOk, landed) ==
  IF gotoOk /\ shotOk
    THEN ~Includes(landed, "/signin") /\ ~Includes(landed, "/sign_in")
    ELSE FALSE

\* login(page) of auth-helper.ts: "true", "false" or "throw". Errors of
\* the try block (missing credentials, engine errors, the screenshots) are
\* caught, but the catch block takes a screenshot that can throw itself.
login(credsOk, engineOk, landed, failedShotOk, errorShotOk) ==
  LET caught == IF errorShotOk THEN "false" ELSE "throw"
  IN  IF ~credsOk \/ ~engineOk
        THEN caught
        ELSE IF ~Includes(landed, "/signin") /\ ~Includes(landed, "/sign_in")
               THEN "true"
               ELSE IF failedShotOk THEN "false" ELSE caught

\* the values one call of login(page) can produce, with the URL it ends on
LoginOutcomes ==
  { [ result |-> login(USER_CREDS, engineOk, landed, failedShotOk, errorShotOk),
      landed |-> IF USER_CREDS /\ engineOk THEN landed ELSE url ] :
    engineOk \in BOOLEAN, landed \in Urls,
    failedShotOk \in BOOLEAN, errorShotOk \in BOOLEAN }

\* record of a verifier call
Verdict(by, gotoOk, status, shotOk, landed, result) ==
  [ by |-> by, gotoOk |-> gotoOk, status |-> status, shotOk |-> shotOk,
    landed |-> landed, result |-> result, threw |-> FALSE ]

\* legacy test, step 1: context.storageState({ path: authFile }) when the
\* file exists, then ensureAuthenticated
FB_Start ==
  /\ pc = "start"
  /\ flow = "formBuilderLegacy"
  /\ IF authFile.exists
       THEN /\ authFile' = Saved(run)
            /\ obs' = Written(obs)
       ELSE UNCHANGED << authFile, obs >>
  /\ pc' = "ea_start"
  /\ UNCHANGED << config, shots, po, pricing, run, flow, url, loginSuccess >>

\* ensureAuthenticated: with a stored session, verify it and return true
\* when it is valid; otherwise go on to login(page)
EA_Start ==
  /\ pc = "ea_start"
  /\ IF hasStoredAuth
       THEN \E gotoOk \in BOOLEAN, shotOk \in BOOLEAN, landed \in Urls :
              LET ok == verifyAuthentication(gotoOk, shotOk, landed)
                  o == [ obs EXCEPT
                           !.storedAuth = "true",
                           !.fileAtAsk = authFile,
                           !.verified = IF ok THEN "pass" ELSE "fail",
                           !.ensured = IF ok THEN "true" ELSE "none",
                           !.probeUrl = IF gotoOk THEN landed ELSE url,
                           !.lastVerify = Verdict("verifyAuthentication", gotoOk,
                                                  0, shotOk, landed, ok) ]
              IN  /\ url' = IF gotoOk THEN landed ELSE url
                  /\ obs' = o
                  /\ pc' = IF ok THEN "fb_editor" ELSE "ea_login"
       ELSE /\ pc' = "ea_login"
            /\ obs' = [ obs EXCEPT !.storedAuth = "false",
                                   !.fileAtAsk = authFile ]
            /\ UNCHANGED url
  /\ UNCHANGED << authFile, config, shots, po, pricing, run, flow, loginSuccess >>

\* ensureAuthenticated: login(page); false makes ensureAuthenticated return
\* false, and the test then tries one more direct login
EA_Login ==
  /\ pc = "ea_login"
  /\ \E out \in LoginOutcomes :
       LET o == [ obs EXCEPT !.loginCalls = @ + 1,
                             !.eaLogin = out.result,
                             !.loginPassed = @ \/ (out.result = "true") ]
       IN  /\ url' = out.landed
           /\ CASE out.result = "true" ->
                     /\ loginSuccess' = TRUE
                     /\ pc' = "ea_save"
                     /\ obs' = o
                [] out.result = "false" ->
                     /\ loginSuccess' = FALSE
                     /\ pc' = "fb_direct"
                     /\ obs' = [ o EXCEPT !.ensured = "false" ]
                [] OTHER ->
                     /\ UNCHANGED loginSuccess
                     /\ Finish(o, "threw")
  /\ UNCHANGED << authFile, config, shots, po, pricing, run, flow >>

\* variant: the double check decides with the login
ensureResult_verified(success, isAuthenticated) == success /\ isAuthenticated

\* ensureAuthenticated: `return loginSuccess`, "regardless of verification"
ensureResult(success, isAuthenticated) == success

\* ensureAuthenticated after a successful login: saveAuthState, then the
\* double check, whose result only produces a warning
EA_Save ==
  /\ pc = "ea_save"
  /\ authFile' = Saved(run)
  /\ \E gotoOk \in BOOLEAN, shotOk \in BOOLEAN, landed \in Urls :
       LET ok  == verifyAuthentication(gotoOk, shotOk, landed)
           res == ensureResult(loginSuccess, ok)
       IN  /\ url' = IF gotoOk THEN landed ELSE url
           /\ obs' = [ Written(obs) EXCEPT
                         !.ensured = IF res THEN "true" ELSE "false",
                         !.doubleCheck = IF ok THEN "pass" ELSE "fail",
                         !.lastVerify = Verdict("verifyAuthentication", gotoOk,
                                                0, shotOk, landed, ok) ]
           /\ pc' = IF res THEN "fb_editor" ELSE "fb_direct"
  /\ UNCHANGED << config, shots, po, pricing, run, flow, loginSuccess >>

\* legacy test: ensureAuthenticated returned false, one more direct login;
\* its success saves the state, its failure throws
FB_DirectLogin ==
  /\ pc = "fb_direct"
  /\ \E out \in LoginOutcomes :
       LET o == [ obs EXCEPT !.loginCalls = @ + 1,
                             !.loginPassed = @ \/ (out.result = "true") ]
       IN  /\ url' = out.landed
           /\ IF out.result = "true"
                THEN /\ loginSuccess' = TRUE
                     /\ authFile' = Saved(run)
                     /\ pc' = "fb_editor"
                     /\ obs' = Written(o)
                ELSE /\ UNCHANGED << loginSuccess, authFile >>
                     /\ Finish(o, "threw")
  /\ UNCHANGED << config, shots, po, pricing, run, flow >>

\* legacy test, steps 2 and 3: open the editor; on a 'signin' URL log in
\* again, and throw when that fails; then the rest of the test
FB_Editor ==
  /\ pc = "fb_editor"
  /\ \E gotoOk \in BOOLEAN, landed \in Urls, restOk \in BOOLEAN :
       IF ~gotoOk
         THEN /\ Finish(obs, "threw")
              /\ UNCHANGED << url, loginSuccess >>
         ELSE IF Includes(landed, "signin")
           THEN \E out \in LoginOutcomes :
                  LET o == [ obs EXCEPT !.loginCalls = @ + 1,
                                        !.loginPassed = @ \/ (out.result = "true"),
                                        !.bodyStarted = (out.result = "true") ]
                  IN  /\ url' = out.landed
                      /\ loginSuccess' = (out.result = "true")
                      /\ Finish(o, IF out.result = "true" /\ restOk
                                     THEN "returned" ELSE "threw")
           ELSE /\ url' = landed
                /\ UNCHANGED loginSuccess
                /\ Finish([ obs EXCEPT !.bodyStarted = TRUE ],
                          IF restOk THEN "returned" ELSE "threw")
  /\ UNCHANGED << authFile, config, shots, po, pricing, run, flow >>

\* ------------------------------------------------------------------------
\* tests/auth.spec.ts: 'Login and save authentication state'
\* ------------------------------------------------------------------------

\* the test up to its login check: credentials, navigation, form, submit;
\* the state is saved only when the URL contains neither 'signin' nor
\* 'sign_in'
AS_Login ==
  /\ pc = "start"
  /\ flow = "authSpec"
  /\ \E engineOk \in BOOLEAN, landed \in Urls :
       IF ~USER_CREDS \/ ~engineOk
         THEN /\ Finish(obs, "threw")
              /\ UNCHANGED << url, loginSuccess >>
         ELSE LET isLoggedInUrl == ~Includes(landed, "signin") /\ ~Includes(landed, "sign_in")
                  o == [ obs EXCEPT !.loginCalls = @ + 1, !.formFilled = TRUE,
                                    !.submitted = TRUE,
                                    !.loginPassed = isLoggedInUrl ]
              IN  /\ url' = landed
                  /\ loginSuccess' = isLoggedInUrl
                  /\ IF isLoggedInUrl
                       THEN /\ pc' = "as_save"
                            /\ obs' = o
                       ELSE Finish(o, "threw")
  /\ UNCHANGED << authFile, config, shots, po, pricing, run, flow >>

\* the test after a successful login: save the state, then expect the
\* dashboard's Create button
AS_Save ==
  /\ pc = "as_save"
  /\ authFile' = Saved(run)
  /\ \E hasCreateButton \in BOOLEAN :
       Finish(Written(obs), IF hasCreateButton THEN "returned" ELSE "threw")
  /\ UNCHANGED << config, shots, po, pricing, run, flow, url, loginSuccess >>

\* ------------------------------------------------------------------------
\* fixtures.ts and the beforeEach of the Form Builder test
\* ------------------------------------------------------------------------

\* variant: the response status is not looked at
authCheck_urlOnly(gotoOk, status, landed) ==
  gotoOk /\ ~Includes(landed, "/signin") /\ ~Includes(landed, "/sign_in")

\* authCheck fixture: the navigation succeeded with a status below 400 and
\* the URL is not a login page; errors give false
authCheck(gotoOk, status, landed) ==
  IF gotoOk
    THEN LET isOnLogin == Includes(landed, "/signin") \/ Includes(landed, "/sign_in")
         IN  status # 0 /\ status < 400 /\ ~isOnLogin
    ELSE FALSE

\* beforeEach: authCheck; when it fails, the fallback LoginPage.login,
\* which needs the credentials
BE_AuthCheck ==
  /\ pc = "start"
  /\ flow = "beforeEach"
  /\ \E gotoOk \in BOOLEAN, status \in Statuses, landed \in Urls :
       LET isAuthenticated == authCheck(gotoOk, status, landed)
           o == [ obs EXCEPT
                    !.authChecked = IF isAuthenticated THEN "pass" ELSE "fail",
                    !.lastVerify = Verdict("authCheck", gotoOk, status, TRUE,
                                           landed, isAuthenticated) ]
       IN  /\ url' = IF gotoOk THEN landed ELSE url
           /\ IF isAuthenticated
                THEN /\ pc' = "be_nav"
                     /\ obs' = o
                ELSE IF ~USER_CREDS
                  THEN Finish(o, "threw")
                  ELSE /\ pc' = "lp_start"
                       /\ obs' = [ o EXCEPT !.loginCalls = @ + 1 ]
  /\ UNCHANGED << authFile, config, shots, po, pricing, run, flow, loginSuccess >>

\* variant: only '/signin' counts as a redirect to the login page
redirectedToLogin_signinOnly(currentUrl) == Includes(currentUrl, "/signin")

\* navigateDirectlyToEditor: `currentUrl.includes('/signin') ||
\* currentUrl.includes('/sign_in')`
redirectedToLogin(currentUrl) ==
  Includes(currentUrl, "/signin") \/ Includes(currentUrl, "/sign_in")

\* FormBuilderPage.navigateDirectlyToEditor: a login URL after the
\* navigation throws before waitForEditorLoad; so does an editor that
\* does not load
BE_NavigateDirectlyToEditor ==
  /\ pc = "be_nav"
  /\ \E gotoOk \in BOOLEAN, landed \in Urls, editorLoaded \in BOOLEAN :
       IF ~gotoOk
         THEN /\ Finish(obs, "threw")
              /\ UNCHANGED url
         ELSE /\ url' = landed
              /\ IF redirectedToLogin(landed)
                   THEN Finish([ obs EXCEPT !.editorUrl = landed ], "threw")
                   ELSE IF editorLoaded
                     THEN /\ pc' = "be_modal"
                          /\ obs' = [ obs EXCEPT !.editorUrl = landed,
                                                 !.editorWaited = TRUE ]
                     ELSE Finish([ obs EXCEPT !.editorUrl = landed,
                                              !.editorWaited = TRUE ], "threw")
  /\ UNCHANGED << authFile, config, shots, po, pricing, run, flow, loginSuccess >>

\* beforeEach: closeWelcomeModalIfNeeded swallows its errors; beforeEach
\* ends and the runner starts the body of the test
BE_CloseWelcomeModal ==
  /\ pc = "be_modal"
  /\ pc' = "be_body"
  /\ obs' = [ obs EXCEPT !.bodyStarted = TRUE ]
  /\ UNCHANGED << authFile, config, shots, po, pricing, run, flow, url, loginSuccess >>

\* the body of 'should allow changing form background color ...'
BE_TestBody ==
  /\ pc = "be_body"
  /\ \E passed \in BOOLEAN : Finish(obs, IF passed THEN "returned" ELSE "threw")
  /\ UNCHANGED << authFile, config, shots, po, pricing, run, flow, url, loginSuccess >>

\* ------------------------------------------------------------------------
\* PricingPage: texts, selectors and the three extraction tiers
\* ------------------------------------------------------------------------

\* number of cards / sections one selector can match
MaxCards == 2
MaxSections == 2

Digits == { "0", "1", "2", "3", "4", "5", "6", "7", "8", "9" }

\* texts that are compared or cut are sequences of characters
Chars(s) ==
  CASE s = "" -> << >>
    [] s = "$0" -> << "$", "0" >>
    [] s = "$4" -> << "$", "4" >>
    [] s = ".94" -> << ".", "9", "4" >>
    [] s = "$4.94" -> << "$", "4", ".", "9", "4" >>
    [] s = "$5.99" -> << "$", "5", ".", "9", "9" >>
    [] s = "$9" -> << "$", "9" >>
    [] s = "$12.14" -> << "$", "1", "2", ".", "1", "4" >>
    [] s = "$80.99" -> << "$", "8", "0", ".", "9", "9" >>
    [] s = "0" -> << "0" >>
    [] s = "4.94" -> << "4", ".", "9", "4" >>
    [] s = "9.99" -> << "9", ".", "9", "9" >>
    [] s = "12.14" -> << "1", "2", ".", "1", "4" >>
    [] s = "80.99" -> << "8", "0", ".", "9", "9" >>
    [] s = "from $4.94 / mo" ->
         << "f", "r", "o", "m", " ", "$", "4", ".", "9", "4", " ", "/", " ", "m", "o" >>
    [] s = "$12.14/month" ->
         << "$", "1", "2", ".", "1", "4", "/", "m", "o", "n", "t", "h" >>
    [] s = "$ call us" -> << "$", " ", "c", "a", "l", "l", " ", "u", "s" >>

\* String.prototype.toLowerCase on the words of the model
toLowerCase(w) ==
  CASE w \in { "Free", "FREE", "free" } -> "free"
    [] w \in { "Starter", "STARTER", "starter" } -> "starter"
    [] w \in { "Pro", "PRO", "pro" } -> "pro"
    [] w \in { "Business", "BUSINESS", "business" } -> "business"
    [] w \in { "Enterprise", "enterprise" } -> "enterprise"
    [] OTHER -> w

\* PricingPage.pricingCardSelectors
pricingCardSelectors ==
  << ".pricing-page__tablet-card", ".pricing-card", ".price-card", ".plan-card",
     "[class*=pricing][class*=card]", "[class*=plan][class*=card]",
     ".pricing-section", "[data-pricing]", "[data-plan]" >>

\* sectionSelectors of getSectionBasedPricing
sectionSelectors ==
  << ".pricing-section", "[class*=pricing-section]", "[id*=pricing]", "section" >>

\* knownPlans of the section and text tiers
knownPlans == << "Free", "Starter", "Pro", "Business", "Enterprise" >>

\* A card as the structured tier sees it: the trimmed text of the first
\* element under each of the 4 name selectors, the 4 price selectors and
\* the 2 cent selectors ("" / << >>: no element, or an empty text)
StarterCard ==
  [ names  |-> << "Starter", "", "", "" >>,
    prices |-> << Chars("$4"), << >>, << >>, << >> >>,
    cents  |-> << Chars(".94"), << >> >> ]
FreeCard ==
  [ names  |-> << "", "FREE", "", "Free" >>,
    prices |-> << << >>, Chars("$0"), << >>, Chars("$5.99") >>,
    cents  |-> << << >>, << >> >> ]
NamelessCard ==
  [ names  |-> << "", "", "", "" >>,
    prices |-> << Chars("$12.14"), << >>, << >>, << >> >>,
    cents  |-> << << >>, << >> >> ]
PricelessCard ==
  [ names  |-> << "", "", "Pro", "" >>,
    prices |-> << << >>, << >>, << >>, << >> >>,
    cents  |-> << << >>, Chars(".94") >> ]

StarterYearlyCard ==
  [ names  |-> << "", "", "", "starter" >>,
    prices |-> << << >>, << >>, Chars("$9"), << >> >>,
    cents  |-> << << >>, Chars(".94") >> ]

CardKinds ==
  { StarterCard, StarterYearlyCard, FreeCard, NamelessCard, PricelessCard }

\* what locator(cardSelector) can match
CardSeqs == UNION { [ 1..n -> CardKinds ] : n \in 0..MaxCards }

\* first non-empty text of a selector cascade: `if (name) break`
RECURSIVE firstText(_, _)
firstText(texts, none) ==
  IF texts = << >> THEN none
  ELSE IF Head(texts) # none THEN Head(texts)
  ELSE firstText(Tail(texts), none)

\* the entry the structured tier pushes for one card, if any
cardEntry(card) ==
  LET name == firstText(card.names, "")
      price == firstText(card.prices, << >>)
  IN  IF name # "" /\ price # << >>
        THEN << [ name |-> name, price |-> price \o firstText(card.cents, << >>) ] >>
        ELSE << >>

\* the entries of all cards a selector matched, in order
RECURSIVE cardEntries(_)
cardEntries(cards) ==
  IF cards = << >> THEN << >>
  ELSE cardEntry(Head(cards)) \o cardEntries(Tail(cards))

\* variant: the loop over the card selectors never breaks
structuredStops_never(results) == FALSE

\* getStructuredPricingData, end of one round of the selector loop:
\* `if (results.length > 0) break`
structuredStops(results) == Len(results) > 0

\* A section as the section tier sees it: the known plans its text
\* contains and the texts of its descendants that contain "$"
AllPlansSection ==
  [ plans |-> { "Free", "Starter", "Pro", "Business" },
    priceTexts |-> << Chars("from $4.94 / mo"), Chars("$0") >> ]
ProSection ==
  [ plans |-> { "Pro" }, priceTexts |-> << Chars("$12.14/month"), Chars("$ call us") >> ]
CallUsSection ==
  [ plans |-> { "Enterprise" }, priceTexts |-> << Chars("$ call us") >> ]
NoPriceSection ==
  [ plans |-> { "Business" }, priceTexts |-> << >> ]

SectionKinds ==
  { AllPlansSection, ProSection, CallUsSection, NoPriceSection }

\* what locator(sectionSelector) can match
SectionSeqs == UNION { [ 1..n -> SectionKinds ] : n \in 0..MaxSections }

\* text.includes('$')
hasDollar(text) == \E i \in 1..Len(text) : text[i] = "$"

\* priceText.match(/\$[\d.,]+(\.\d+)?(\s*\/\s*mo)?/)![0], or priceText
\* itself when the pattern does not match
matchPrice(text) ==
  LET n == Len(text)
      isPriceChar(c) == c \in Digits \cup { ".", "," }
      starts == { i \in 1..n : text[i] = "$" /\ i < n /\ isPriceChar(text[i + 1]) }
  IN  IF starts = { }
        THEN text
        ELSE LET i == CHOOSE a \in starts : \A b \in starts : a <= b
                 \* greedy [\d.,]+
                 e == CHOOSE k \in (i + 1)..n :
                        /\ \A m \in (i + 1)..k : isPriceChar(text[m])
                        /\ (k = n \/ ~isPriceChar(text[k + 1]))
                 \* optional (\s*\/\s*mo)
                 skip(from) == CHOOSE k \in from..(n + 1) :
                                 /\ \A m \in from..(k - 1) : text[m] = " "
                                 /\ (k = n + 1 \/ text[k] # " ")
                 slash == skip(e + 1)
                 mo == IF slash <= n /\ text[slash] = "/" THEN skip(slash + 1) ELSE n + 1
                 last == IF mo + 1 <= n /\ text[mo] = "m" /\ text[mo + 1] = "o"
                           THEN mo + 1 ELSE e
             IN  SubSeq(text, i, last)

\* concatenation of the priceTexts of the sections that contain the plan:
\* planSections.locator(':has-text("$")').allTextContents()
RECURSIVE planPriceTexts(_, _)
planPriceTexts(sections, planName) ==
  IF sections = << >> THEN << >>
  ELSE (IF planName \in Head(sections).plans THEN Head(sections).priceTexts ELSE << >>)
         \o planPriceTexts(Tail(sections), planName)

\* the entry the section tier pushes for one plan, if any
sectionEntry(sections, planName) ==
  LET priceTexts == SelectSeq(planPriceTexts(sections, planName), hasDollar)
  IN  IF priceTexts = << >>
        THEN << >>
        ELSE << [ name |-> planName, price |-> matchPrice(Head(priceTexts)) ] >>

\* the entries of all known plans for one section selector
RECURSIVE sectionEntries(_, _)
sectionEntries(sections, plans) ==
  IF plans = << >> THEN << >>
  ELSE sectionEntry(sections, Head(plans)) \o sectionEntries(sections, Tail(plans))

\* getSectionBasedPricing, end of one round of the selector loop
sectionStops(results) == Len(results) > 0

\* The body text as the text tier sees it: words and prices separated by
\* single spaces; w is the word, len its length in characters, amount the
\* digits of a price "$<amount>" (<< >> for a word)
Word(w, len) == [ w |-> w, len |-> len, amount |-> << >> ]
Price(amount) == [ w |-> "$", len |-> Len(Chars(amount)) + 1, amount |-> Chars(amount) ]

\* a run of other text longer than the gap the pattern allows
OtherText == Word("...", 120)

\* {1,100} of the text pattern
TEXT_GAP_MAX == 100

BodyTexts ==
  { << >>,
    << Word("Pricing", 7), Word("plans", 5) >>,
    << Word("starter", 7), Word("plan", 4), Price("4.94"), Price("9.99") >>,
    << Word("Pro", 3), OtherText, Price("12.14") >>,
    << Word("FREE", 4), Price("0"), Word("Pro", 3), Price("12.14") >>,
    << Word("Business", 8), OtherText, Word("Business", 8), Price("80.99") >>,
    << Word("Free", 4), Price("0"), OtherText,
       Word("Starter", 7), Price("4.94"), OtherText,
       Word("Pro", 3), Price("12.14"), OtherText,
       Word("Business", 8), Price("80.99") >> }

\* characters between the end of token i and the "$" of token j
RECURSIVE gap(_, _, _)
gap(body, i, j) ==
  IF j = i + 1 THEN 1 ELSE gap(body, i, j - 1) + body[j - 1].len + 1

\* bodyText.match(/<planName>[\s\S]{1,100}\$(\d+(\.\d+)?)/i): the leftmost
\* plan name that has a price within the gap, and (the quantifier being
\* greedy) the last such price
textEntry(body, planName) ==
  LET reach(i) == { j \in (i + 1)..Len(body) :
                      /\ body[j].amount # << >>
                      /\ gap(body, i, j) <= TEXT_GAP_MAX }
      found == { i \in 1..Len(body) :
                   /\ toLowerCase(body[i].w) = toLowerCase(planName)
                   /\ reach(i) # { } }
  IN  IF found = { }
        THEN << >>
        ELSE LET i == CHOOSE a \in found : \A b \in found : a <= b
                 j == CHOOSE a \in reach(i) : \A b \in reach(i) : a >= b
             IN  << [ name |-> planName, price |-> << "$" >> \o body[j].amount ] >>

\* getTextBasedPricing: one entry per known plan the pattern finds
RECURSIVE getTextBasedPricing(_, _)
getTextBasedPricing(body, plans) ==
  IF plans = << >> THEN << >>
  ELSE textEntry(body, Head(plans)) \o getTextBasedPricing(body, Tail(plans))

\* getSocialFeedPricingWithFallbacks: `if (tier.length > 0)
\* results.push(...tier)`
pushTier(results, tierOutput) ==
  IF Len(tierOutput) > 0 THEN results \o tierOutput ELSE results

\* variant: every tier runs, whatever the earlier tiers returned
triesNextTier_always(results) == TRUE

\* getSocialFeedPricingWithFallbacks: `if (results.length === 0)` before
\* the section tier and before the text tier
triesNextTier(results) == Len(results) = 0

\* expectedPrices of verifySocialFeedPricing: name and the literal prefix
\* of its pattern /^\$.../
expectedPrices ==
  << [ name |-> "Free", pattern |-> Chars("$0") ],
     [ name |-> "Starter", pattern |-> Chars("$4.94") ],
     [ name |-> "Pro", pattern |-> Chars("$12.14") ],
     [ name |-> "Business", pattern |-> Chars("$80.99") ] >>

\* variant: the pattern must match the whole price
patternTest_exact(pattern, price) == price = pattern

\* pattern.test(price) for a pattern /^<literal>/
patternTest(pattern, price) ==
  /\ Len(price) >= Len(pattern)
  /\ SubSeq(price, 1, Len(pattern)) = pattern

\* variant: a plan of the right price is found for every expected plan
correctPricePlan_found(pricingData, expected) ==
  << [ name |-> expected.name, price |-> expected.pattern ] >>

\* verifySocialFeedPricing: `plans = pricingData.filter(name matches)`,
\* `plans.find(p => expected.pattern.test(p.price))`; << >> for undefined
correctPricePlan(pricingData, expected) ==
  LET isPlan(p) == toLowerCase(p.name) = toLowerCase(expected.name)
      plans == SelectSeq(pricingData, isPlan)
      hasPrice(p) == patternTest(expected.pattern, p.price)
  IN  SelectSeq(plans, hasPrice)

\* verifySocialFeedPricing: the expected plans logged as matching
matchedPlans(pricingData, expected) ==
  { expected[k].name : k \in { i \in 1..Len(expected) :
                                 correctPricePlan(pricingData, expected[i]) # << >> } }

\* verifySocialFeedPricing, the loop over expectedPrices: allPricesFound
\* stays true while every expected plan has an entry of the right price
RECURSIVE checkPrices(_, _, _)
checkPrices(pricingData, expected, allPricesFound) ==
  IF expected = << >> THEN allPricesFound
  ELSE checkPrices(pricingData, Tail(expected),
                   IF correctPricePlan(pricingData, Head(expected)) # << >>
                     THEN allPricesFound ELSE FALSE)

\* ------------------------------------------------------------------------
\* The Social Feed pricing test
\* ------------------------------------------------------------------------

\* the test up to verifySocialFeedPricing: navigation, language check and
\* page diagnostics, each of which can throw
PT_Start ==
  /\ pc = "start"
  /\ flow = "pricingTest"
  /\ \E setupOk \in BOOLEAN :
       IF setupOk
         THEN /\ pc' = "pv_start"
              /\ obs' = obs
         ELSE Finish(obs, "threw")
  /\ UNCHANGED << authFile, config, shots, po, pricing, run, flow, url, loginSuccess >>

\* verifySocialFeedPricing: debugPageContent (engine errors propagate),
\* then getSocialFeedPricingWithFallbacks starts with the structured tier
PV_Start ==
  /\ pc = "pv_start"
  /\ \E debugOk \in BOOLEAN :
       IF debugOk
         THEN /\ pc' = "tier1"
              /\ pricing' = [ pricing EXCEPT !.cardIdx = 1 ]
              /\ obs' = obs
         ELSE /\ Finish(obs, "threw")
              /\ UNCHANGED pricing
  /\ UNCHANGED << authFile, config, shots, po, run, flow, url, loginSuccess >>

\* getSocialFeedPricingWithFallbacks after a tier returned tierOutput:
\* push it, then run the next tier or return
TierReturns(p, tier, tierOutput) ==
  LET results == pushTier(p.results, tierOutput)
      q == [ p EXCEPT !.results = results,
                      !.tiersRun = Append(@, [ tier |-> tier, output |-> tierOutput ]) ]
  IN  IF tier < 3 /\ triesNextTier(results)
        THEN /\ pc' = IF tier = 1 THEN "tier2" ELSE "tier3"
             /\ pricing' = [ q EXCEPT !.sectionIdx = IF tier = 1 THEN 1 ELSE @ ]
        ELSE /\ pc' = "pv_check"
             /\ pricing' = [ q EXCEPT !.returned = TRUE ]

\* getStructuredPricingData, one round of the loop over the card
\* selectors: count the cards, extract an entry from each, stop on results
PR_StructuredRound ==
  /\ pc = "tier1"
  /\ \E cards \in CardSeqs :
       LET i == pricing.cardIdx
           entries == IF Len(cards) > 0 THEN cardEntries(cards) ELSE << >>
           results == pricing.tierResults \o entries
           adopts == pricing.adoptedCard = 0 /\ entries # << >>
           p == [ pricing EXCEPT
                    !.cardQueries = @ + 1,
                    !.cardMatch = IF @ = 0 /\ Len(cards) > 0 THEN i ELSE @,
                    !.adoptedCard = IF adopts THEN i ELSE @,
                    !.adoptedCardEntries = IF adopts THEN entries ELSE @,
                    !.tierResults = << >> ]
       IN  IF Len(cards) > 0 /\ structuredStops(results)
             THEN TierReturns(p, 1, results)
             ELSE IF i < Len(pricingCardSelectors)
               THEN /\ pc' = "tier1"
                    /\ pricing' = [ p EXCEPT !.cardIdx = i + 1,
                                             !.tierResults = results ]
               ELSE TierReturns(p, 1, results)
  /\ UNCHANGED << authFile, config, shots, po, run, flow, url, loginSuccess, obs >>

\* getSectionBasedPricing, one round of the loop over the section
\* selectors
PR_SectionRound ==
  /\ pc = "tier2"
  /\ \E sections \in SectionSeqs :
       LET i == pricing.sectionIdx
           entries == IF Len(sections) > 0
                        THEN sectionEntries(sections, knownPlans) ELSE << >>
           results == pricing.tierResults \o entries
           adopts == pricing.adoptedSection = 0 /\ entries # << >>
           p == [ pricing EXCEPT
                    !.sectionQueries = @ + 1,
                    !.sectionMatch = IF @ = 0 /\ Len(sections) > 0 THEN i ELSE @,
                    !.adoptedSection = IF adopts THEN i ELSE @,
                    !.adoptedSectionEntries = IF adopts THEN entries ELSE @,
                    !.tierResults = << >> ]
       IN  IF Len(sections) > 0 /\ sectionStops(results)
             THEN TierReturns(p, 2, results)
             ELSE IF i < Len(sectionSelectors)
               THEN /\ pc' = "tier2"
                    /\ pricing' = [ p EXCEPT !.sectionIdx = i + 1,
                                             !.tierResults = results ]
               ELSE TierReturns(p, 2, results)
  /\ UNCHANGED << authFile, config, shots, po, run, flow, url, loginSuccess, obs >>

\* getTextBasedPricing on the text of the body
PR_TextTier ==
  /\ pc = "tier3"
  /\ \E bodyText \in BodyTexts :
       TierReturns(pricing, 3, getTextBasedPricing(bodyText, knownPlans))
  /\ UNCHANGED << authFile, config, shots, po, run, flow, url, loginSuccess, obs >>

\* verifySocialFeedPricing after the extraction: compare with the expected
\* prices and return allPricesFound
PV_Check ==
  /\ pc = "pv_check"
  /\ pricing' = [ pricing EXCEPT
                    !.verified = TRUE,
                    !.matched = matchedPlans(pricing.results, expectedPrices),
                    !.allPricesFound = checkPrices(pricing.results, expectedPrices, TRUE) ]
  /\ pc' = "pt_assert"
  /\ UNCHANGED << authFile, config, shots, po, run, flow, url, loginSuccess, obs >>

\* variant: the assertion is made in debug mode too
testVerdict_alwaysAsserts(debugMode, isPricingCorrect) ==
  IF isPricingCorrect THEN "returned" ELSE "threw"

\* `if (debugMode) test.skip(...) else expect(isPricingCorrect).toBe(true)`
testVerdict(debugMode, isPricingCorrect) ==
  IF debugMode THEN "skipped"
  ELSE IF isPricingCorrect THEN "returned" ELSE "threw"

\* the test's verdict: skipped in debug mode, else expect(isPricingCorrect)
PT_Assert ==
  /\ pc = "pt_assert"
  /\ Finish(obs, testVerdict(DEBUG_MODE, pricing.allPricesFound))
  /\ UNCHANGED << authFile, config, shots, po, pricing, run, flow, url, loginSuccess >>

\* ------------------------------------------------------------------------
\* The runs of the suite
\* ------------------------------------------------------------------------

\* the next flow starts on the session file the previous one left
NextRun ==
  /\ pc = "done"
  /\ run < MaxRuns
  /\ run' = run + 1
  /\ flow' \in Flows
  /\ pc' = "start"
  /\ url' = "about:blank"
  /\ loginSuccess' = FALSE
  /\ pricing' = NoPricing
  /\ obs' = [ NoObs EXCEPT !.fileAtStart = authFile ]
  /\ UNCHANGED << authFile, config, shots, po >>

Next ==
  \/ GS_Start \/ GS_VerifyExisting \/ GS_Unlink \/ GS_FreshLogin
  \/ GS_CaptchaCheck \/ GS_ManualWait \/ GS_Reverify \/ GS_Save
  \/ LP_Start \/ LP_Dashboard \/ LP_FormFill \/ LP_Race \/ LP_Verify
  \/ LS_Submit \/ LS_CaptchaCheck \/ LS_ManualWait \/ LS_Save
  \/ FB_Start \/ EA_Start \/ EA_Login \/ EA_Save \/ FB_DirectLogin \/ FB_Editor
  \/ AS_Login \/ AS_Save
  \/ BE_AuthCheck \/ BE_NavigateDirectlyToEditor \/ BE_CloseWelcomeModal
  \/ BE_TestBody
  \/ PT_Start \/ PV_Start \/ PR_StructuredRound \/ PR_SectionRound \/ PR_TextTier
  \/ PV_Check \/ PT_Assert
  \/ NextRun

Spec == Init /\ [][Next]_vars

\* ---------------------------------------------------------------------
\* globalSetup on its own: the runner calls it once per run and the event
\* loop resumes it whenever the promise it awaits has settled
\* ---------------------------------------------------------------------
SetupInit ==
  /\ Init
  /\ flow = "globalSetup"

\* the next run of the suite calls globalSetup again
SetupNextRun ==
  /\ NextRun
  /\ flow' = "globalSetup"

SetupNext ==
  \/ GS_Start \/ GS_VerifyExisting \/ GS_Unlink \/ GS_FreshLogin
  \/ GS_CaptchaCheck \/ GS_ManualWait \/ GS_Reverify \/ GS_Save
  \/ LP_Start \/ LP_Dashboard \/ LP_FormFill \/ LP_Race \/ LP_Verify
  \/ SetupNextRun

\* every await of globalSetup is bounded by a timeout, so a step that can be
\* taken is taken
SetupSpec == SetupInit /\ [][SetupNext]_vars /\ WF_vars(SetupNext)

\* ------------------------------------------------------------------------
\* Properties of the authentication flows
\* ------------------------------------------------------------------------

C2_WritesFollowPassedLogin ==
  \A i \in 1..Len(obs.writes) : obs.writes[i]

\* C3: after a failed verification in globalSetup the session file does not
\* exist when the fresh login starts, and when globalSetup has ended the
\* file is absent or was written by this run.
C3_StaleSessionDiscarded ==
  (flow = "globalSetup" /\ obs.verified = "fail") =>
    /\ obs.freshLogin => ~obs.fileAtLogin.exists
    /\ pc = "done" => (~authFile.exists \/ authFile.savedInRun = run)

\* C4 as stated: an auth verifier returns true exactly when the navigation
\* succeeded and the URL contains neither '/signin' nor '/sign_in'.
C4_UrlAloneDecides ==
  obs.lastVerify.by # "none" =>
    /\ ~obs.lastVerify.threw
    /\ obs.lastVerify.result <=>
         (obs.lastVerify.gotoOk /\ ~isOnLoginPage(obs.lastVerify.landed))

\* C4: verifyAuthentication returns true exactly when the navigation, the
\* wait and the screenshot completed and the URL contains neither '/signin'
\* nor '/sign_in'; authCheck returns true exactly when the navigation
\* completed with a status that is present and below 400 and the URL
\* contains neither; both return false, and do not throw, when the
\* navigation fails.
C4_VerifierResult ==
  LET v == obs.lastVerify
  IN  /\ v.by = "verifyAuthentication" =>
           /\ ~v.threw
           /\ v.result <=> (v.gotoOk /\ v.shotOk /\ ~isOnLoginPage(v.landed))
      /\ v.by = "authCheck" =>
           /\ ~v.threw
           /\ v.result <=> (/\ v.gotoOk
                            /\ v.status \in 1..399
                            /\ ~isOnLoginPage(v.landed))

\* authCheck reached a page that is not a login page, with status 404
C4_Witness ==
  /\ obs.lastVerify.by = "authCheck"
  /\ obs.lastVerify.gotoOk
  /\ obs.lastVerify.status = 404
  /\ ~isOnLoginPage(obs.lastVerify.landed)
  /\ ~obs.lastVerify.result

C6_CaptchaOnlyAfterFailedVerify ==
  /\ obs.captchaChecks > 0 => (obs.verifyFailed /\ ~obs.captchaEarly)
  /\ (obs.verifyFailed /\ obs.captchaFound = "no") =>
       /\ pc = "done" /\ obs.outcome = "threw"
       /\ obs.waits = 0
       /\ obs.writes = << >>

\* C7: the body of the Form Builder test starts only when beforeEach did
\* not throw: authCheck returned true or the fallback login returned true,
\* and the editor navigation did not end on a '/signin' or '/sign_in' URL;
\* on such a URL navigateDirectlyToEditor throws without waiting for the
\* editor.
C7_BodyNeedsAuthentication ==
  flow = "beforeEach" =>
    /\ obs.bodyStarted =>
         /\ obs.authChecked = "pass" \/ loginSuccess
         /\ obs.editorUrl # "none"
         /\ ~isOnLoginPage(obs.editorUrl)
         /\ obs.editorWaited
    /\ (obs.authChecked = "fail" /\ obs.editorUrl # "none") => loginSuccess
    /\ (obs.editorUrl # "none" /\ isOnLoginPage(obs.editorUrl)) =>
         /\ pc = "done" /\ obs.outcome = "threw"
         /\ ~obs.editorWaited
         /\ ~obs.bodyStarted

\* the body started after authCheck failed and the fallback login passed
C7_Witness ==
  /\ flow = "beforeEach"
  /\ obs.bodyStarted
  /\ obs.authChecked = "fail"
  /\ loginSuccess

\* ------------------------------------------------------------------------
\* Properties of the pricing extraction
\* ------------------------------------------------------------------------

\* C8: the tiers run in the order structured, section, text; a tier runs
\* only when every earlier tier returned an empty list; the result is the
\* output of the first tier that returned entries, and empty when none did.
C8_TierPriority ==
  LET t == pricing.tiersRun
  IN  /\ \A i \in 1..Len(t) :
           /\ t[i].tier = i
           /\ \A j \in 1..(i - 1) : t[j].output = << >>
      /\ pricing.returned =>
           /\ Len(t) >= 1
           /\ pricing.results = t[Len(t)].output
           /\ Len(t) < 3 => t[Len(t)].output # << >>

\* the section tier ran after an empty structured tier and gave the result
C8_Witness ==
  /\ pricing.returned
  /\ Len(pricing.tiersRun) = 2
  /\ pricing.results # << >>

\* C9 as stated: the first selector with a non-zero count is adopted and no
\* later selector is queried, in the card cascade and the section cascade.
C9_FirstMatchWins ==
  /\ pricing.cardMatch # 0 =>
       /\ pricing.cardQueries = pricing.cardMatch
       /\ pricing.adoptedCard = pricing.cardMatch
  /\ pricing.sectionMatch # 0 =>
       /\ pricing.sectionQueries = pricing.sectionMatch
       /\ pricing.adoptedSection = pricing.sectionMatch

\* C9: in the card cascade and in the section cascade the first selector
\* whose matches yield at least one entry is adopted: the tier returns
\* exactly its entries and no later selector is queried; a selector that
\* yields no entry is passed over, and when none yields an entry every
\* selector has been queried and the tier returns the empty list.
C9_FirstYieldingSelectorWins ==
  LET t == pricing.tiersRun
  IN  /\ pricing.adoptedCard # 0 =>
           /\ pricing.cardQueries = pricing.adoptedCard
           /\ pricing.cardMatch \in 1..pricing.adoptedCard
           /\ Len(t) >= 1
           /\ t[1].output = pricing.adoptedCardEntries
           /\ t[1].output # << >>
      /\ (pricing.adoptedCard = 0 /\ Len(t) >= 1) =>
           /\ pricing.cardQueries = Len(pricingCardSelectors)
           /\ t[1].output = << >>
      /\ pricing.adoptedSection # 0 =>
           /\ pricing.sectionQueries = pricing.adoptedSection
           /\ pricing.sectionMatch \in 1..pricing.adoptedSection
           /\ Len(t) >= 2
           /\ t[2].output = pricing.adoptedSectionEntries
           /\ t[2].output # << >>
      /\ (pricing.adoptedSection = 0 /\ Len(t) >= 2) =>
           /\ pricing.sectionQueries = Len(sectionSelectors)
           /\ t[2].output = << >>

\* the second card selector was the first to match, and it was adopted
C9_Witness ==
  /\ pricing.cardMatch = 2
  /\ pricing.adoptedCard = 2
  /\ pricing.cardQueries = 2
  /\ Len(pricing.tiersRun) >= 1

\* C10: when all three tiers return nothing,
\* getSocialFeedPricingWithFallbacks returns the empty list and
\* verifySocialFeedPricing returns false; neither throws, so a failure of
\* the run comes only from the assertion of the test.
C10_AllTiersEmpty ==
  LET t == pricing.tiersRun
  IN  (Len(t) = 3 /\ \A i \in 1..3 : t[i].output = << >>) =>
        /\ pricing.returned
        /\ pricing.results = << >>
        /\ pc \in { "pv_check", "pt_assert", "done" }
        /\ pc # "pv_check" => (pricing.verified /\ ~pricing.allPricesFound)
        /\ obs.outcome = "threw" => (pricing.verified /\ ~DEBUG_MODE)

\* verifySocialFeedPricing returned false after three empty tiers
C10_Witness ==
  /\ Len(pricing.tiersRun) = 3
  /\ pricing.results = << >>
  /\ pricing.verified
  /\ ~pricing.allPricesFound

\* C11: verifySocialFeedPricing returns true exactly when each of the four
\* expected plans has, among the extracted entries, an entry whose name is
\* the plan name up to case and whose price begins with the expected
\* amount; a plan counts as matched as soon as one of its entries has the
\* right price.
C11_VerifyIffEveryPlanPriced ==
  LET r == pricing.results
      priced(plan, amount) ==
        \E i \in 1..Len(r) :
          /\ toLowerCase(r[i].name) = toLowerCase(plan)
          /\ Len(r[i].price) >= Len(Chars(amount))
          /\ \A k \in 1..Len(Chars(amount)) : r[i].price[k] = Chars(amount)[k]
      want == { << "Free", "$0" >>, << "Starter", "$4.94" >>,
                << "Pro", "$12.14" >>, << "Business", "$80.99" >> }
  IN  pricing.verified =>
        /\ \A w \in want : (w[1] \in pricing.matched) <=> priced(w[1], w[2])
        /\ pricing.allPricesFound <=> \A w \in want : priced(w[1], w[2])

\* verifySocialFeedPricing returned true
C11_Witness ==
  /\ pricing.verified
  /\ pricing.allPricesFound
  /\ Len(pricing.results) = 4

\* C18: hasStoredAuth returns true exactly when the session file exists at
\* the time of the call: true on a file that was saved, false on a file
\* that was never written or was deleted.
C18_HasStoredAuthIsExistence ==
  /\ obs.storedAuth # "none" =>
       /\ (obs.storedAuth = "true") <=> obs.fileAtAsk.exists
       /\ obs.fileAtAsk.deleted => obs.storedAuth = "false"
  /\ obs.storedAuth = "none" => obs.fileAtAsk = Absent

\* hasStoredAuth returned false on a session file that had been deleted
C18_Witness ==
  /\ obs.storedAuth = "false"
  /\ obs.fileAtAsk.deleted

\* C19: in LoginPage.login a timeout or failure of the wait after the
\* submit is not fatal: the verification step follows, and what login
\* returns is what isLoggedIn returned in that step.
C19_RaceTimeoutFallsThrough ==
  (flow \in { "globalSetup", "beforeEach" } /\ obs.raceTimedOut) =>
    /\ pc = "lp_verify" \/ obs.verifyRan
    /\ obs.verifyRan => loginSuccess = obs.loggedIn

\* login returned true although the wait after the submit had timed out
C19_Witness ==
  /\ obs.raceTimedOut
  /\ obs.verifyRan
  /\ loginSuccess

\* C20: once verifySocialFeedPricing has returned, the Social Feed pricing
\* test is skipped, not failed, when DEBUG_MODE is 'true', and otherwise
\* fails exactly when the returned value was false.
C20_DebugModeDowngrades ==
  (flow = "pricingTest" /\ pricing.verified /\ pc = "done") =>
    /\ DEBUG_MODE => obs.outcome = "skipped"
    /\ ~DEBUG_MODE => (obs.outcome = "threw" <=> ~pricing.allPricesFound)
    /\ ~DEBUG_MODE => (obs.outcome = "returned" <=> pricing.allPricesFound)

\* in debug mode the test ended as skipped on a pricing mismatch
C20_Witness ==
  /\ flow = "pricingTest"
  /\ DEBUG_MODE
  /\ pricing.verified /\ ~pricing.allPricesFound
  /\ obs.outcome = "skipped"

\* ------------------------------------------------------------------------
\* The screenshot helpers (utils/screenshot-utils.ts, both generations)
\* ------------------------------------------------------------------------

MaxClock == 1

\* Values of process.env.SCREENSHOT_MODE: unset, the three modes, a mode in
\* capitals and a value that is no mode.
EnvValues ==
  { "unset", "enabled", "disabled", "failures_only", "DISABLED", "verbose" }

ScreenshotMode ==
  [ disabled |-> "disabled", enabled |-> "enabled",
    failures_only |-> "failures_only" ]

\* process.env.SCREENSHOT_MODE?.toLowerCase()
modeFromEnv(env) ==
  CASE env = "unset"    -> "undefined"
    [] env = "DISABLED" -> "disabled"
    [] OTHER            -> env

\* The older helper: the environment is read at every call.
legacyGetScreenshotMode(env) ==
  LET mode == modeFromEnv(env)
  IN  IF mode = ScreenshotMode.disabled THEN ScreenshotMode.disabled
      ELSE IF mode = ScreenshotMode.failures_only
           THEN ScreenshotMode.failures_only
           ELSE ScreenshotMode.enabled

legacyShouldTakeScreenshot(mode, isFailure) ==
  IF mode = ScreenshotMode.disabled THEN FALSE
  ELSE IF mode = ScreenshotMode.failures_only THEN isFailure
       ELSE TRUE

\* Variant: the cache is never consulted.
getScreenshotMode_uncached(cache, env) ==
  legacyGetScreenshotMode(env)

\* The current helper: the cached value when there is one, else the
\* environment's value, enabled when it is unset or names no mode.
getScreenshotMode(cache, env) ==
  IF cache # "null" THEN cache
  ELSE LET fromEnv == modeFromEnv(env)
       IN  IF fromEnv = ScreenshotMode.disabled THEN ScreenshotMode.disabled
           ELSE IF fromEnv = ScreenshotMode.failures_only
                THEN ScreenshotMode.failures_only
                ELSE IF fromEnv = ScreenshotMode.enabled
                     THEN ScreenshotMode.enabled
                     ELSE ScreenshotMode.enabled

\* Variant: failures_only captures everything.
shouldTakeScreenshot_failuresOnlyAsEnabled(mode, isFailure) ==
  mode # ScreenshotMode.disabled

shouldTakeScreenshot(mode, isFailure) ==
  CASE mode = ScreenshotMode.disabled      -> FALSE
    [] mode = ScreenshotMode.failures_only -> isFailure
    [] mode = ScreenshotMode.enabled       -> TRUE
    [] OTHER                               -> TRUE

\* Base file names handed to the helpers.
BaseNames == { "login-error.png", "after login" }

\* path.extname(baseFileName)
extname(baseFileName) ==
  CASE baseFileName = "login-error.png" -> ".png"
    [] OTHER                            -> ""

\* path.basename(baseFileName, ext)
basename(baseFileName, ext) ==
  CASE baseFileName = "login-error.png" /\ ext = ".png" -> "login-error"
    [] OTHER                                             -> baseFileName

\* name.replace(/[^a-zA-Z0-9_-]/g, '_')
sanitize(name) ==
  CASE name = "after login"     -> "after_login"
    [] name = "login-error.png" -> "login-error_png"
    [] OTHER                    -> name

\* new Date().toISOString().replace(/[:.]/g, '-'): the clock to the
\* millisecond.
timestamp(now) == now

\* generateScreenshotPath: the directory is created when missing; a failed
\* creation gives undefined; else <name>-<timestamp><ext>.
generateScreenshotPath(baseFileName, dirExists, mkdirOk, now) ==
  IF ~dirExists /\ ~mkdirOk
  THEN [ path |-> NoPath, created |-> FALSE ]
  ELSE [ path    |-> [ defined   |-> TRUE,
                       name      |-> sanitize(basename(baseFileName,
                                                       extname(baseFileName))),
                       timestamp |-> timestamp(now),
                       ext       |-> IF extname(baseFileName) # ""
                                     THEN extname(baseFileName) ELSE ".png" ],
         created |-> ~dirExists ]

\* Variant: an error of page.screenshot is not caught.
capture_uncaught(screenshotPath, shotOk) ==
  [ NoResult EXCEPT !.path = IF shotOk THEN screenshotPath ELSE NoPath,
                    !.generated = screenshotPath,
                    !.invoked = TRUE, !.wrote = shotOk, !.threw = ~shotOk ]

\* takeScreenshot, the try block: page.screenshot({ ...options, path }); the
\* path when it completed, undefined when it threw.
capture(screenshotPath, shotOk) ==
  [ NoResult EXCEPT !.path = IF shotOk THEN screenshotPath ELSE NoPath,
                    !.generated = screenshotPath,
                    !.invoked = TRUE, !.wrote = shotOk ]

\* Variant: the mode is not asked.
takeScreenshot_unconditional(mode, isFailure, base, dirExists, mkdirOk, shotOk, now) ==
  LET g == generateScreenshotPath(base, dirExists, mkdirOk, now)
  IN  IF ~g.path.defined THEN NoResult
      ELSE [ capture(g.path, shotOk) EXCEPT !.created = g.created ]

takeScreenshot(mode, isFailure, base, dirExists, mkdirOk, shotOk, now) ==
  IF ~shouldTakeScreenshot(mode, isFailure) THEN NoResult
  ELSE LET g == generateScreenshotPath(base, dirExists, mkdirOk, now)
       IN  IF ~g.path.defined THEN NoResult
           ELSE [ capture(g.path, shotOk) EXCEPT !.created = g.created ]

\* getScreenshotPath of the current helper: a path without a capture.
getScreenshotPath(mode, isFailure, fileName, dirExists, mkdirOk, now) ==
  IF ~shouldTakeScreenshot(mode, isFailure) THEN NoResult
  ELSE LET g == generateScreenshotPath(fileName, dirExists, mkdirOk, now)
       IN  [ NoResult EXCEPT !.path = g.path, !.generated = g.path,
                             !.created = g.created ]

\* getScreenshotPath of the older helper: fs.mkdirSync is not guarded, the
\* name is the file name less its /\.\w+$/ suffix, not sanitized.
legacyGetScreenshotPath(mode, isFailure, fileName, dirExists, mkdirOk, now) ==
  IF ~legacyShouldTakeScreenshot(mode, isFailure) THEN NoResult
  ELSE IF ~dirExists /\ ~mkdirOk THEN [ NoResult EXCEPT !.threw = TRUE ]
  ELSE [ NoResult EXCEPT
           !.path = [ defined   |-> TRUE,
                      name      |-> basename(fileName, extname(fileName)),
                      timestamp |-> timestamp(now),
                      ext       |-> IF extname(fileName) # ""
                                    THEN extname(fileName) ELSE ".png" ],
           !.created = ~dirExists ]

\* The call sites of the older helper: page.screenshot({ path:
\* getScreenshotPath(fileName) }), the capture made whatever the path is.
screenshotAtPath(p, shotOk) ==
  IF p.threw THEN p
  ELSE [ p EXCEPT !.invoked = TRUE,
                  !.wrote = shotOk /\ p.path.defined,
                  !.threw = ~shotOk ]

\* tests/auth.spec.ts: page.screenshot({ path: 'screenshots/main-site.png' });
\* the capture primitive creates the directory of the path itself.
directScreenshot(dirExists, shotOk) ==
  [ NoResult EXCEPT
      !.path = [ defined |-> TRUE, name |-> "main-site", timestamp |-> 0,
                 ext |-> ".png" ],
      !.invoked = TRUE, !.wrote = shotOk,
      !.created = ~dirExists /\ shotOk, !.threw = ~shotOk ]

\* The older BasePage.takeScreenshot: the directory, then
\* page.screenshot({ path: <name>-<Date.now()>.png }), no mode asked.
basePageTakeScreenshot(dirExists, mkdirOk, shotOk, now) ==
  IF ~dirExists /\ ~mkdirOk THEN [ NoResult EXCEPT !.threw = TRUE ]
  ELSE [ NoResult EXCEPT
           !.path = IF shotOk
                    THEN [ defined |-> TRUE, name |-> "screenshot",
                           timestamp |-> now, ext |-> ".png" ]
                    ELSE NoPath,
           !.invoked = TRUE, !.wrote = shotOk,
           !.created = ~dirExists, !.threw = ~shotOk ]

mainVars ==
  << authFile, USER_CREDS, CAPTCHA_WAIT_TIMEOUT, run, flow, pc, url,
     loginSuccess, DEBUG_MODE, pricing, obs >>

\* The state after a call of the current getScreenshotMode.
withMode(sh) ==
  LET mode == getScreenshotMode(sh.currentScreenshotMode, sh.env)
  IN  [ sh EXCEPT !.currentScreenshotMode = mode,
                  !.envRead = IF sh.currentScreenshotMode = "null"
                              THEN sh.env ELSE @,
                  !.firstMode = IF @ = "none" THEN mode ELSE @ ]

Call(fn, mode, isFailure, should, base, mkdirOk, shotOk, result) ==
  [ fn |-> fn, env |-> shots.env, mode |-> mode, isFailure |-> isFailure,
    should |-> should, base |-> base, dirBefore |-> shots.dirExists,
    mkdirOk |-> mkdirOk, shotOk |-> shotOk, result |-> result ]

\* The state after a call that did `result`.
after(sh, call) ==
  [ sh EXCEPT !.dirExists = @ \/ call.result.created,
              !.gen = IF call.result.generated.defined
                      THEN [ base |-> call.base,
                             path |-> call.result.generated ]
                      ELSE @,
              !.prevGen = IF call.result.generated.defined THEN sh.gen ELSE @,
              !.last = call ]

\* fs.mkdirSync is reached only when the directory is missing.
MkdirOutcomes == IF shots.dirExists THEN { TRUE } ELSE BOOLEAN

ShotInit ==
  /\ shots \in { [ NoShots EXCEPT !.env = e, !.dirExists = d ] :
                   e \in EnvValues, d \in BOOLEAN }
  /\ authFile = Absent
  /\ USER_CREDS = FALSE
  /\ CAPTCHA_WAIT_TIMEOUT = 60000
  /\ run = 1
  /\ flow = "screenshots"
  /\ pc = "idle"
  /\ url = "about:blank"
  /\ loginSuccess = FALSE
  /\ DEBUG_MODE = FALSE
  /\ pricing = NoPricing
  /\ po = NoPageCall
  /\ obs = NoObs

\* process.env.SCREENSHOT_MODE is given another value.
SetEnv ==
  /\ \E e \in EnvValues \ { shots.env } : shots' = [ shots EXCEPT !.env = e ]
  /\ UNCHANGED << mainVars, po >>

\* A millisecond passes.
Tick ==
  /\ shots.now < MaxClock
  /\ shots' = [ shots EXCEPT !.now = @ + 1 ]
  /\ UNCHANGED << mainVars, po >>

SU_GetScreenshotMode ==
  /\ LET sh == withMode(shots)
     IN  shots' = after(sh, Call("getScreenshotMode", sh.currentScreenshotMode,
                                 FALSE, FALSE, "", FALSE, FALSE, NoResult))
  /\ UNCHANGED << mainVars, po >>

SU_ShouldTakeScreenshot ==
  /\ \E isFailure \in BOOLEAN :
       LET sh   == withMode(shots)
           mode == sh.currentScreenshotMode
       IN  shots' = after(sh, Call("shouldTakeScreenshot", mode, isFailure,
                                   shouldTakeScreenshot(mode, isFailure),
                                   "", FALSE, FALSE, NoResult))
  /\ UNCHANGED << mainVars, po >>

SU_TakeScreenshot ==
  /\ \E baseFileName \in BaseNames, isFailure \in BOOLEAN,
        mkdirOk \in MkdirOutcomes, shotOk \in BOOLEAN :
       LET sh   == withMode(shots)
           mode == sh.currentScreenshotMode
       IN  shots' = after(sh, Call("takeScreenshot", mode, isFailure,
                                   shouldTakeScreenshot(mode, isFailure),
                                   baseFileName, mkdirOk, shotOk,
                                   takeScreenshot(mode, isFailure,
                                                  baseFileName,
                                                  shots.dirExists, mkdirOk,
                                                  shotOk, shots.now)))
  /\ UNCHANGED << mainVars, po >>

SU_GetScreenshotPath ==
  /\ \E fileName \in BaseNames, isFailure \in BOOLEAN,
        mkdirOk \in MkdirOutcomes :
       LET sh   == withMode(shots)
           mode == sh.currentScreenshotMode
       IN  shots' = after(sh, Call("getScreenshotPath", mode, isFailure,
                                   shouldTakeScreenshot(mode, isFailure),
                                   fileName, mkdirOk, FALSE,
                                   getScreenshotPath(mode, isFailure, fileName,
                                                     shots.dirExists, mkdirOk,
                                                     shots.now)))
  /\ UNCHANGED << mainVars, po >>

LG_ShouldTakeScreenshot ==
  /\ \E isFailure \in BOOLEAN :
       LET mode == legacyGetScreenshotMode(shots.env)
       IN  shots' = after(shots,
                          Call("legacyShouldTakeScreenshot", mode, isFailure,
                               legacyShouldTakeScreenshot(mode, isFailure),
                               "", FALSE, FALSE, NoResult))
  /\ UNCHANGED << mainVars, po >>

\* verifyAuthentication, login, global setup, the older tests and page
\* object: page.screenshot({ path: getScreenshotPath('auth-verification.png') })
LG_Screenshot ==
  /\ \E fileName \in BaseNames, mkdirOk \in MkdirOutcomes, shotOk \in BOOLEAN :
       LET mode == legacyGetScreenshotMode(shots.env)
           p    == legacyGetScreenshotPath(mode, FALSE, fileName,
                                           shots.dirExists, mkdirOk, shots.now)
       IN  shots' = after(shots,
                          Call("legacyScreenshot", mode, FALSE,
                               legacyShouldTakeScreenshot(mode, FALSE),
                               fileName, mkdirOk, shotOk,
                               screenshotAtPath(p, shotOk)))
  /\ UNCHANGED << mainVars, po >>

\* 'Login and save authentication state': page.screenshot at a fixed path.
AS_Screenshot ==
  /\ \E shotOk \in BOOLEAN :
       shots' = after(shots,
                      Call("directScreenshot", "none", FALSE, FALSE,
                           "screenshots/main-site.png", FALSE, shotOk,
                           directScreenshot(shots.dirExists, shotOk)))
  /\ UNCHANGED << mainVars, po >>

BP_TakeScreenshot ==
  /\ \E mkdirOk \in MkdirOutcomes, shotOk \in BOOLEAN :
       shots' = after(shots,
                      Call("basePageTakeScreenshot", "none", FALSE, FALSE,
                           "screenshot", mkdirOk, shotOk,
                           basePageTakeScreenshot(shots.dirExists, mkdirOk,
                                                  shotOk, shots.now)))
  /\ UNCHANGED << mainVars, po >>

ShotNext ==
  \/ SetEnv \/ Tick
  \/ SU_GetScreenshotMode \/ SU_ShouldTakeScreenshot
  \/ SU_TakeScreenshot \/ SU_GetScreenshotPath
  \/ LG_ShouldTakeScreenshot \/ LG_Screenshot
  \/ AS_Screenshot \/ BP_TakeScreenshot

ShotSpec == ShotInit /\ [][ShotNext]_vars

\* ------------------------------------------------------------------------
\* Claims on the screenshot helpers (checked under ShotSpec)
\* ------------------------------------------------------------------------

\* The functions of the current helper; each asks getScreenshotMode.
CurrentFns ==
  { "getScreenshotMode", "shouldTakeScreenshot", "takeScreenshot",
    "getScreenshotPath" }

\* C12: shouldTakeScreenshot, in both generations of the helper, answers by
\* the table: disabled -> false, failures_only -> isFailure, enabled -> true;
\* and a SCREENSHOT_MODE that is unset or names no mode behaves as enabled.
C12_ShouldTakeScreenshotTable ==
  LET call == shots.last
      env  == IF call.fn = "shouldTakeScreenshot" THEN shots.envRead
              ELSE call.env
  IN  call.fn \in { "shouldTakeScreenshot", "legacyShouldTakeScreenshot" } =>
        /\ call.mode \in { "disabled", "failures_only", "enabled" }
        /\ call.mode = "disabled" => ~call.should
        /\ call.mode = "failures_only" => (call.should <=> call.isFailure)
        /\ call.mode = "enabled" => call.should
        /\ env \in { "disabled", "failures_only", "enabled" } =>
             call.mode = env
        /\ env \in { "unset", "verbose" } => call.mode = "enabled"

C12_Witness ==
  /\ shots.last.fn = "shouldTakeScreenshot"
  /\ shots.last.mode = "failures_only"
  /\ shots.last.isFailure
  /\ shots.last.should

\* C13: when shouldTakeScreenshot(isFailure) is false, takeScreenshot
\* returns undefined and does nothing: page.screenshot is not invoked, no
\* file is written and the screenshots directory is not created.
C13_SkippedCaptureHasNoEffect ==
  LET call == shots.last
  IN  (call.fn = "takeScreenshot" /\ ~call.should) =>
        /\ ~call.result.path.defined
        /\ ~call.result.invoked
        /\ ~call.result.wrote
        /\ ~call.result.created
        /\ ~call.result.threw
        /\ shots.dirExists = call.dirBefore

C13_Witness ==
  /\ shots.last.fn = "takeScreenshot"
  /\ shots.last.mode = "failures_only"
  /\ ~shots.last.isFailure
  /\ ~shots.last.dirBefore /\ shots.last.mkdirOk /\ shots.last.shotOk
  /\ ~shots.last.result.path.defined
  /\ ~shots.dirExists

\* C14: takeScreenshot never throws; when page.screenshot throws, or the
\* screenshots directory cannot be created, it returns undefined; and it
\* returns a path only when page.screenshot completed for that path.
C14_CaptureFailureIsNotFatal ==
  LET call == shots.last
  IN  call.fn = "takeScreenshot" =>
        /\ ~call.result.threw
        /\ (call.result.invoked /\ ~call.shotOk) =>
             ~call.result.path.defined
        /\ (call.should /\ ~call.dirBefore /\ ~call.mkdirOk) =>
             (~call.result.path.defined /\ ~call.result.invoked)
        /\ call.result.path.defined =>
             /\ call.result.invoked /\ call.shotOk /\ call.result.wrote
             /\ call.result.path = call.result.generated

C14_Witness ==
  /\ shots.last.fn = "takeScreenshot"
  /\ shots.last.should
  /\ shots.last.result.invoked
  /\ ~shots.last.shotOk
  /\ ~shots.last.result.path.defined
  /\ ~shots.last.result.threw

\* C15: the mode is read once: every call of the current getScreenshotMode
\* after the first returns what the first returned, whatever
\* SCREENSHOT_MODE has become since.
C15_ModeReadOnce ==
  shots.last.fn \in CurrentFns => shots.last.mode = shots.firstMode

C15_Witness ==
  /\ shots.last.fn = "getScreenshotMode"
  /\ shots.last.env # shots.envRead
  /\ legacyGetScreenshotMode(shots.last.env) # shots.last.mode

\* C16: with SCREENSHOT_MODE=disabled no step of the suite invokes
\* page.screenshot or writes a screenshot file.
C16_DisabledMeansNoCapture ==
  LET call     == shots.last
      disabled == IF call.mode # "none" THEN call.mode = "disabled"
                  ELSE modeFromEnv(call.env) = "disabled"
  IN  (call.fn # "none" /\ disabled) =>
        (~call.result.invoked /\ ~call.result.wrote)

\* C17: two calls of generateScreenshotPath with the same base name return
\* distinct paths, each ending in the base name's extension, .png when it
\* has none (both base names of the model call for .png).
C17_PathsNeverCollide ==
  /\ shots.gen.path.defined => shots.gen.path.ext = ".png"
  /\ (shots.gen.path.defined /\ shots.prevGen.path.defined
      /\ shots.gen.base = shots.prevGen.base) =>
       shots.gen.path # shots.prevGen.path

\* ------------------------------------------------------------------------
\* Claims on the helpers, the page objects and globalSetup (checked under
\* Spec)
\* ------------------------------------------------------------------------

C22_HelperLoginNeverThrows ==
  obs.eaLogin \in { "none", "true", "false" }

C25_VerifiedSessionLeftUntouched ==
  (flow = "globalSetup" /\ obs.verified = "pass") =>
    /\ pc = "done"
    /\ obs.outcome = "returned"
    /\ ~obs.freshLogin
    /\ obs.loginCalls = 0
    /\ obs.browsers = 0
    /\ obs.unlinked = "none"
    /\ obs.writes = << >>
    /\ authFile = obs.fileAtStart
    /\ authFile.exists

C25_Witness ==
  /\ flow = "globalSetup"
  /\ obs.verified = "pass"
  /\ obs.outcome = "returned"
  /\ authFile.exists

\* C30: when globalSetup has returned, a session file exists and a check of
\* this run backs it: either the existing file passed its verification and
\* was left as it was, or a login passed (LoginPage.login returned true, or
\* the re-verification after the CAPTCHA wait passed) and the file was
\* written once, after that check, in this run. When globalSetup has thrown
\* after starting the fresh login, it has written no session file in this
\* run.
C30_ReturnMeansBackedSession ==
  (flow = "globalSetup" /\ pc = "done") =>
    /\ obs.outcome = "returned" =>
         /\ authFile.exists
         /\ \/ /\ obs.verified = "pass"
               /\ obs.writes = << >>
               /\ authFile = obs.fileAtStart
            \/ /\ obs.loginPassed
               /\ loginSuccess \/ obs.reverified = "pass"
               /\ obs.writes = << TRUE >>
               /\ authFile = Saved(run)
    /\ (obs.outcome = "threw" /\ obs.freshLogin) =>
         /\ obs.writes = << >>
         /\ authFile = obs.fileAtLogin

C30_Witness ==
  /\ flow = "globalSetup"
  /\ obs.outcome = "returned"
  /\ obs.waits = 1
  /\ obs.reverified = "pass"
  /\ obs.writes = << TRUE >>
  /\ authFile = Saved(run)

\* ---------------------------------------------------------------------
\* Claim on the termination of globalSetup (checked under SetupSpec)
\* ---------------------------------------------------------------------

\* the counts of one call of globalSetup, and its end
SetupBounded ==
  /\ obs.verifications <= 1
  /\ obs.loginCalls <= 1
  /\ obs.waits <= 1
  /\ obs.browsers <= 1
  /\ (pc = "done") <=> (obs.outcome \in { "returned", "threw" })
  /\ (pc = "done") => (obs.browsers = 0)

\* C29: every call of globalSetup comes to its end, given that each of its
\* bounded waits returns: it makes at most one stored-session verification,
\* at most one login attempt and at most one CAPTCHA manual wait, it ends
\* by returning or by throwing, and in both cases no browser it launched is
\* left open.
C29_SetupTerminates ==
  /\ (pc # "done") ~> (pc = "done")
  /\ (~SetupBounded) ~> FALSE       \* no state is outside SetupBounded

C29_Witness ==
  /\ pc = "done"
  /\ obs.outcome = "threw"
  /\ obs.verifications = 1
  /\ obs.loginCalls = 1
  /\ obs.waits = 1
  /\ obs.browsers = 0

\* ------------------------------------------------------------------------
\* Methods of the page objects, taken one call at a time
\* ------------------------------------------------------------------------

\* longest colour string without its '#'
MaxHexLen == 6

\* the value parseInt(c, 16) gives for one digit
hexValue(c) ==
  CASE c = "0" -> 0
    [] c = "9" -> 9
    [] c = "a" -> 10
    [] c = "F" -> 15

\* the colour strings handed to hexToRgb: digits, with or without '#'
HexInputs ==
  LET HexChars == { "0", "9", "a", "F" }
      digits == UNION { [ 1..n -> HexChars ] : n \in 0..MaxHexLen }
  IN  digits \cup { << "#" >> \o d : d \in digits }

\* Number.NaN; no colour component is negative
NaN == -1

\* hex.replace('#', ''): the first '#' is removed
replaceHash(hex) ==
  IF \E i \in 1..Len(hex) : hex[i] = "#"
    THEN LET i == CHOOSE k \in 1..Len(hex) :
                    /\ hex[k] = "#"
                    /\ \A j \in 1..(k - 1) : hex[j] # "#"
         IN  SubSeq(hex, 1, i - 1) \o SubSeq(hex, i + 1, Len(hex))
    ELSE hex

RECURSIVE parseInt16(_)
\* parseInt(s, 16) of a string of hexadecimal digits; NaN for ''
parseInt16(s) ==
  IF Len(s) = 0 THEN NaN
  ELSE IF Len(s) = 1 THEN hexValue(s[1])
  ELSE 16 * parseInt16(SubSeq(s, 1, Len(s) - 1)) + hexValue(s[Len(s)])

\* s.substring(from, to)
substring(s, from, to) ==
  SubSeq(s, from + 1, IF to < Len(s) THEN to ELSE Len(s))

\* hexToRgb of the page object: << r, g, b >> stands for 'rgb(r, g, b)'
hexToRgb(hex) ==
  LET h1 == replaceHash(hex)
      h2 == IF Len(h1) = 3
              THEN << h1[1], h1[1], h1[2], h1[2], h1[3], h1[3] >>
              ELSE h1
  IN  IF Len(h2) # 6 THEN << 0, 0, 0 >>
      ELSE LET bigint == parseInt16(h2)
           IN  << (bigint \div 65536) % 256, (bigint \div 256) % 256,
                  bigint % 256 >>

\* hexToRgb of the older Form Builder test: three substrings, no check of
\* the length
legacyHexToRgb(hex) ==
  LET h == replaceHash(hex)
  IN  << parseInt16(substring(h, 0, 2)), parseInt16(substring(h, 2, 4)),
         parseInt16(substring(h, 4, 6)) >>

PageCall(fn, input, output, threw) ==
  [ fn |-> fn, input |-> input, output |-> output, threw |-> threw ]

PO_HexToRgb ==
  /\ po.fn = "none"
  /\ \E hex \in HexInputs :
       po' = PageCall("hexToRgb", hex, hexToRgb(hex), FALSE)
  /\ UNCHANGED << mainVars, shots >>

PO_LegacyHexToRgb ==
  /\ po.fn = "none"
  /\ \E hex \in HexInputs :
       po' = PageCall("legacyHexToRgb", hex, legacyHexToRgb(hex), FALSE)
  /\ UNCHANGED << mainVars, shots >>

PO_IsLoggedIn ==
  /\ po.fn = "none"
  /\ \E indicatorVisible \in BOOLEAN, currentUrl \in Urls :
       po' = PageCall("isLoggedIn",
                      [ indicatorVisible |-> indicatorVisible,
                        currentUrl |-> currentUrl ],
                      isLoggedIn(indicatorVisible, currentUrl), FALSE)
  /\ UNCHANGED << mainVars, shots >>

\* waitForEditorLoad: the seven locators it waits on
possibleIndicators == 1..7

\* Promise.race(waits): settles as the first wait to settle does
promiseRace(outcomes, first) == outcomes[first]

\* waitForEditorLoad: throws 'Editor UI failed to load' when the race
\* rejects; waitForPageLoad and the screenshots swallow their errors
waitForEditorLoad(outcomes, first) ==
  promiseRace(outcomes, first) # "visible"

\* how one indicator.waitFor({ state: 'visible', timeout }) settles: the
\* element becomes visible in time, the wait times out, or the wait
\* rejects for another reason (a locator that resolves to several
\* elements, a closed page) at any moment
PO_WaitForEditorLoad ==
  /\ po.fn = "none"
  /\ \E outcomes \in [ possibleIndicators -> { "visible", "timeout", "error" } ] :
       \* a wait that times out settles after every wait whose element
       \* became visible in time; nothing else orders the waits
       \E first \in { i \in possibleIndicators :
                       outcomes[i] = "timeout" =>
                         \A j \in possibleIndicators : outcomes[j] # "visible" } :
         po' = PageCall("waitForEditorLoad",
                        [ outcomes |-> outcomes, first |-> first ],
                        promiseRace(outcomes, first),
                        waitForEditorLoad(outcomes, first))
  /\ UNCHANGED << mainVars, shots >>

\* the colour of the Form Builder test and another one
Colors == { "#2196F3", "#F44336" }

\* the swatches the picker shows, by title, in document order
Palettes ==
  { << >>,
    << "#FFFFFF", "transparent" >>,
    << "#2196F3" >>,
    << "#FFFFFF", "#F44336", "#2196F3" >>,
    << "transparent", "#4CAF50" >> }

\* '.swatches-picker [title]:not([title="#FFFFFF"]):not([title="transparent"])'
\* .first(): "none" when nothing matches
anyColor(palette) ==
  LET ok == { i \in 1..Len(palette) :
                palette[i] \notin { "#FFFFFF", "transparent" } }
  IN  IF ok = { } THEN "none"
      ELSE palette[CHOOSE i \in ok : \A j \in ok : i <= j]

\* div[title="<colorHex>"] is in the palette
hasSwatch(palette, colorHex) == \E i \in 1..Len(palette) : palette[i] = colorHex

\* selectBackgroundColor up to the click of a swatch: the swatch clicked,
\* or a throw. e is what the page does: optionOk (Background & Border
\* clicked), triggerOk (picker trigger clicked), altVisible (the label
\* fallback), containerVisible, palette, exactOk (the wait for and click of
\* the exact swatch succeed)
selectBackgroundColor(colorHex, e) ==
  LET thrown == [ clicked |-> "none", threw |-> TRUE ]
      click(t) == [ clicked |-> t, threw |-> FALSE ]
  IN  IF ~e.optionOk THEN thrown
      ELSE IF ~e.triggerOk /\ ~e.altVisible THEN thrown
      ELSE IF ~e.containerVisible
        THEN IF hasSwatch(e.palette, colorHex) /\ e.exactOk
               THEN click(colorHex) ELSE thrown
        ELSE IF hasSwatch(e.palette, colorHex) /\ e.exactOk
               THEN click(colorHex)
               ELSE IF anyColor(e.palette) # "none"
                      THEN click(anyColor(e.palette)) ELSE thrown

\* selectBackgroundColor, the confirmation: the OK button, the picker's own
\* OK button, or the Enter key; then Escape when the picker is still shown
confirmSelection(okVisible, pickerOkVisible, stillVisible) ==
  [ by      |-> IF okVisible THEN "ok"
                ELSE IF pickerOkVisible THEN "pickerOk" ELSE "enter",
    escaped |-> stillVisible ]

PO_SelectBackgroundColor ==
  /\ po.fn = "none"
  /\ \E colorHex \in Colors, okVisible \in BOOLEAN,
        e \in [ optionOk : BOOLEAN, triggerOk : BOOLEAN,
                altVisible : BOOLEAN, containerVisible : BOOLEAN,
                palette : Palettes, exactOk : BOOLEAN ],
        pickerOkVisible \in BOOLEAN, stillVisible \in BOOLEAN :
       LET picked == selectBackgroundColor(colorHex, e)
       IN  po' = PageCall("selectBackgroundColor",
                          [ colorHex |-> colorHex, e |-> e ],
                          [ clicked |-> picked.clicked,
                            confirm |-> IF picked.threw THEN "none"
                                        ELSE confirmSelection(okVisible,
                                               pickerOkVisible,
                                               stillVisible).by,
                            escaped |-> ~picked.threw /\ stillVisible ],
                          picked.threw)
  /\ UNCHANGED << mainVars, shots >>

PageInit ==
  /\ po = NoPageCall
  /\ shots = NoShots
  /\ authFile = Absent
  /\ USER_CREDS = FALSE
  /\ CAPTCHA_WAIT_TIMEOUT = 60000
  /\ run = 1
  /\ flow = "pageObjects"
  /\ pc = "idle"
  /\ url = "about:blank"
  /\ loginSuccess = FALSE
  /\ DEBUG_MODE = FALSE
  /\ pricing = NoPricing
  /\ obs = NoObs

PageNext ==
  \/ PO_HexToRgb \/ PO_LegacyHexToRgb \/ PO_IsLoggedIn
  \/ PO_WaitForEditorLoad \/ PO_SelectBackgroundColor

PageSpec == PageInit /\ [][PageNext]_vars

\* ------------------------------------------------------------------------
\* Claims on the page objects (checked under PageSpec)
\* ------------------------------------------------------------------------

\* C23: LoginPage.isLoggedIn returns true if and only if the dashboard
\* indicator became visible within the timeout and the URL does not contain
\* '/signin'; in every other case it returns false; it never throws.
C23_IsLoggedInIffIndicatorOffLogin ==
  po.fn = "isLoggedIn" =>
    /\ ~po.threw
    /\ po.output \in BOOLEAN
    /\ po.output <=>
         /\ po.input.indicatorVisible
         /\ po.input.currentUrl \notin
              { "https://www.powr.io/signin?lang=en",
                "https://www.powr.io/signin?return_to=/users/me" }

C23_Witness ==
  /\ po.fn = "isLoggedIn"
  /\ po.input.indicatorVisible
  /\ po.input.currentUrl = "https://www.powr.io/signin?return_to=/users/me"
  /\ po.output = FALSE
  /\ ~po.threw

\* C24: waitForEditorLoad returns normally whenever at least one of the
\* seven indicators becomes visible within the timeout, in whatever order
\* the waits settle, and throws only when none becomes visible in time.
C24_AnyIndicatorLoadsEditor ==
  po.fn = "waitForEditorLoad" =>
    LET someVisible == \E i \in possibleIndicators :
                         po.input.outcomes[i] = "visible"
    IN  po.threw <=> ~someVisible

\* C27: when selectBackgroundColor(hex) returns without error, the swatch
\* clicked is the one whose title is hex.
C27_SelectedColorIsRequested ==
  (po.fn = "selectBackgroundColor" /\ ~po.threw) =>
    po.output.clicked = po.input.colorHex

====
